---- MODULE Spec2Model ----
(***************************************************************************)
(* Model of the konsumer_offsets decoder (default feature set, ts_int):    *)
(* KonsumerOffsetsData::try_from_bytes and everything it calls, computed    *)
(* on real byte sequences.  A byte is a number in 0..255, a byte slice a    *)
(* sequence of bytes, a String the sequence of its UTF-8 bytes.             *)
(*                                                                         *)
(* i16 and i32 values are plain integers.  An i64 does not fit the model    *)
(* checker's integers, so it is kept bit-exact as the pair <<hi, lo>> of    *)
(* its two big-endian 32-bit halves, each read as an i32: 0 is <<0, 0>>     *)
(* and -1 is <<-1, -1>>.                                                    *)
(***************************************************************************)
EXTENDS Integers, Sequences, FiniteSets, TLC

VARIABLES
    key,      \* Option<&[u8]>: [some |-> BOOLEAN, bytes |-> byte sequence]
    payload,  \* Option<&[u8]>, same shape
    fixture,  \* how the two inputs were laid out (not read by the decoder)
    result,   \* what the call returned; [status |-> "pending"] before it
    heap_grants \* whether the allocator grants a vector of i32::MAX elements

vars == <<key, payload, fixture, result, heap_grants>>

(***************************************************************************)
(* Integers on the wire (big-endian, two's complement).                    *)
(***************************************************************************)
I16(b1, b2) ==
    LET u == b1 * 256 + b2 IN IF u >= 32768 THEN u - 65536 ELSE u

I32(b1, b2, b3, b4) ==
    (IF b1 >= 128 THEN b1 - 256 ELSE b1) * 16777216 + b2 * 65536 + b3 * 256 + b4

I64(b) == <<I32(b[1], b[2], b[3], b[4]), I32(b[5], b[6], b[7], b[8])>>

Zero64 == <<0, 0>>
MinusOne64 == <<-1, -1>>

I32_MAX == 2147483647

(***************************************************************************)
(* KonsumerOffsetsError.  version is the i16 an Unsupported* variant       *)
(* carries (0 otherwise); detail tells the BytesParserError apart:         *)
(* "NotEnoughBytes" (insufficient data) or "StringParseFail" (the bytes    *)
(* are not UTF-8).  UnableToParseForVersion names the type that could not  *)
(* be parsed in detail and the type whose version it was in parent.        *)
(***************************************************************************)
KError(kind, version, detail) ==
    [kind |-> kind, version |-> version, detail |-> detail, parent |-> ""]

MessageKeyMissing == KError("MessageKeyMissing", 0, "")
ByteParsingError(detail) == KError("ByteParsingError", 0, detail)
UnsupportedMessageVersion(v) == KError("UnsupportedMessageVersion", v, "")
UnsupportedOffsetCommitSchema(v) == KError("UnsupportedOffsetCommitSchema", v, "")
UnsupportedGroupMetadataSchema(v) == KError("UnsupportedGroupMetadataSchema", v, "")
UnsupportedConsumerProtocolSubscriptionVersion(v) ==
    KError("UnsupportedConsumerProtocolSubscriptionVersion", v, "")
UnsupportedConsumerProtocolAssignmentVersion(v) ==
    KError("UnsupportedConsumerProtocolAssignmentVersion", v, "")
UnableToParseForVersion(v) ==
    [KError("UnableToParseForVersion", v, "TopicPartitions") EXCEPT
        !.parent = "ConsumerProtocolSubscription"]

NotEnoughBytes == ByteParsingError("NotEnoughBytes")
StringParseFail == ByteParsingError("StringParseFail")

(***************************************************************************)
(* BytesParser: a buffer and a cursor.  Every read takes the buffer and    *)
(* the cursor and returns Ok(value, new cursor) or Err(error, cursor).     *)
(***************************************************************************)
Ok(v, cur) == [ok |-> TRUE, val |-> v, cur |-> cur]
Err(e, cur) == [ok |-> FALSE, err |-> e, cur |-> cur]

parseable(buf, cur) == Len(buf) - cur

\* `n as usize` of an i32 n, compared with the bytes left: a negative n
\* becomes a number above 2^63, larger than any slice.
AsUsizeExceeds(n, left) == n < 0 \/ n > left

Slice(buf, cur, size) == SubSeq(buf, cur + 1, cur + size)

IsCont(b) == b >= 128 /\ b <= 191

\* str::from_utf8: well-formed UTF-8 (no overlong form, no surrogate,
\* nothing above U+10FFFF).
RECURSIVE ValidUtf8(_)
ValidUtf8(s) ==
    IF s = <<>> THEN TRUE
    ELSE LET b == s[1]
             n == Len(s)
         IN  IF b < 128 THEN ValidUtf8(Tail(s))
             ELSE IF b >= 194 /\ b <= 223
                  THEN n >= 2 /\ IsCont(s[2]) /\ ValidUtf8(SubSeq(s, 3, n))
             ELSE IF b >= 224 /\ b <= 239
                  THEN /\ n >= 3
                       /\ IsCont(s[2]) /\ IsCont(s[3])
                       /\ (b = 224 => s[2] >= 160)
                       /\ (b = 237 => s[2] <= 159)
                       /\ ValidUtf8(SubSeq(s, 4, n))
             ELSE IF b >= 240 /\ b <= 244
                  THEN /\ n >= 4
                       /\ IsCont(s[2]) /\ IsCont(s[3]) /\ IsCont(s[4])
                       /\ (b = 240 => s[2] >= 144)
                       /\ (b = 244 => s[2] <= 143)
                       /\ ValidUtf8(SubSeq(s, 5, n))
             ELSE FALSE

parse_i16(buf, cur) ==
    IF parseable(buf, cur) < 2 THEN Err(NotEnoughBytes, cur)
    ELSE Ok(I16(buf[cur + 1], buf[cur + 2]), cur + 2)

parse_i32(buf, cur) ==
    IF parseable(buf, cur) < 4 THEN Err(NotEnoughBytes, cur)
    ELSE Ok(I32(buf[cur + 1], buf[cur + 2], buf[cur + 3], buf[cur + 4]), cur + 4)

parse_i64(buf, cur) ==
    IF parseable(buf, cur) < 8 THEN Err(NotEnoughBytes, cur)
    ELSE Ok(I64(Slice(buf, cur, 8)), cur + 8)

parse_slice(buf, cur, size) ==
    IF AsUsizeExceeds(size, parseable(buf, cur)) THEN Err(NotEnoughBytes, cur)
    ELSE Ok(Slice(buf, cur, size), cur + size)

\* Mutation of parse_str_utf8: the bytes are taken as they are.
parse_str_utf8_unchecked(buf, cur, size) == parse_slice(buf, cur, size)

parse_str_utf8(buf, cur, size) ==
    IF AsUsizeExceeds(size, parseable(buf, cur)) THEN Err(NotEnoughBytes, cur)
    ELSE IF ValidUtf8(Slice(buf, cur, size)) THEN Ok(Slice(buf, cur, size), cur + size)
    ELSE Err(StringParseFail, cur)

\* The `?` operator threaded through a function body.  st is the state of
\* the function so far, Ok(value being built, cursor) or the Err it already
\* returned; r is the next read, made at st.cur.  An Err is passed on as it
\* is; an Ok read stores its value in the named field and moves the cursor.
Set(st, field, r) ==
    IF ~st.ok THEN st
    ELSE IF ~r.ok THEN r
    ELSE Ok([st.val EXCEPT ![field] = r.val], r.cur)

\* v.push(read?) on the vector being built in st.
Push(st, r) ==
    IF ~st.ok THEN st
    ELSE IF ~r.ok THEN r
    ELSE Ok(Append(st.val, r.val), r.cur)

\* Mutation of parse_str: only a length of -1 stands for the empty string.
parse_str_of_only_minus_one(buf, group_strlen) ==
    IF ~group_strlen.ok THEN group_strlen
    ELSE IF group_strlen.val = -1 THEN Ok(<<>>, group_strlen.cur)
    ELSE parse_str_utf8(buf, group_strlen.cur, group_strlen.val)

\* parse_str once its length prefix, group_strlen, has been read.
parse_str_of(buf, group_strlen) ==
    IF ~group_strlen.ok THEN group_strlen
    ELSE IF group_strlen.val < 0 THEN Ok(<<>>, group_strlen.cur)
    ELSE parse_str_utf8(buf, group_strlen.cur, group_strlen.val)

parse_str(buf, cur) == parse_str_of(buf, parse_i16(buf, cur))

\* Mutation of parse_vec_bytes: a negative length stands for an empty array.
parse_vec_bytes_of_negative_empty(buf, bytes_array_len) ==
    IF ~bytes_array_len.ok THEN bytes_array_len
    ELSE IF bytes_array_len.val < 0 THEN Ok(<<>>, bytes_array_len.cur)
    ELSE parse_slice(buf, bytes_array_len.cur, bytes_array_len.val)

\* parse_vec_bytes once its length prefix, bytes_array_len, has been read.
parse_vec_bytes_of(buf, bytes_array_len) ==
    IF ~bytes_array_len.ok THEN bytes_array_len
    ELSE parse_slice(buf, bytes_array_len.cur, bytes_array_len.val)

parse_vec_bytes(buf, cur) == parse_vec_bytes_of(buf, parse_i32(buf, cur))

\* self.field = parse_xxx(parser)?
Field_i16(buf, st, field) == Set(st, field, parse_i16(buf, st.cur))
Field_i32(buf, st, field) == Set(st, field, parse_i32(buf, st.cur))
Field_i64(buf, st, field) == Set(st, field, parse_i64(buf, st.cur))
Field_str(buf, st, field) == Set(st, field, parse_str(buf, st.cur))
Field_vec_bytes(buf, st, field) == Set(st, field, parse_vec_bytes(buf, st.cur))

(***************************************************************************)
(* OffsetCommit                                                            *)
(***************************************************************************)
\* #[derive(Default)]: every number 0, every string empty, every bool false.
OffsetCommit_default ==
    [message_version |-> 0, group |-> <<>>, topic |-> <<>>, partition |-> 0,
     is_tombstone |-> FALSE, schema_version |-> 0, offset |-> Zero64,
     leader_epoch |-> 0, metadata |-> <<>>, commit_timestamp |-> Zero64,
     expire_timestamp |-> Zero64]

\* Mutation of OffsetCommit::try_from: the record starts with the -1
\* timestamps a payload without them would get, not with the defaults.
OffsetCommit_try_from_minus_one(buf, cur, message_version) ==
    Field_i32(buf,
        Field_str(buf,
            Field_str(buf,
                Ok([OffsetCommit_default EXCEPT
                        !.message_version = message_version,
                        !.is_tombstone = TRUE,
                        !.commit_timestamp = MinusOne64,
                        !.expire_timestamp = MinusOne64], cur),
                "group"),
            "topic"),
        "partition")

\* Mutation of OffsetCommit::try_from: topic is read before group.
OffsetCommit_try_from_topic_first(buf, cur, message_version) ==
    Field_i32(buf,
        Field_str(buf,
            Field_str(buf,
                Ok([OffsetCommit_default EXCEPT
                        !.message_version = message_version,
                        !.is_tombstone = TRUE], cur),
                "topic"),
            "group"),
        "partition")

\* Parses the rest of the key, the cursor standing right after the tag:
\* group, then topic, then partition.
OffsetCommit_try_from(buf, cur, message_version) ==
    Field_i32(buf,
        Field_str(buf,
            Field_str(buf,
                Ok([OffsetCommit_default EXCEPT
                        !.message_version = message_version,
                        !.is_tombstone = TRUE], cur),
                "group"),
            "topic"),
        "partition")

\* Mutation of the range check: only the upper end is tested.
OffsetCommit_schema_upper_only(schema_version) == schema_version <= 3

OffsetCommit_schema_supported(schema_version) ==
    schema_version >= 0 /\ schema_version <= 3

\* The check that follows the read of schema_version.
OffsetCommit_schema_checked(st) ==
    IF ~st.ok THEN st
    ELSE IF ~OffsetCommit_schema_supported(st.val.schema_version)
    THEN Err(UnsupportedOffsetCommitSchema(st.val.schema_version), st.cur)
    ELSE st

\* Mutation of the leader_epoch gate: read from schema_version 2 on.
OffsetCommit_leader_epoch_from_v2(buf, st) ==
    IF ~st.ok THEN st
    ELSE IF st.val.schema_version >= 2 THEN Field_i32(buf, st, "leader_epoch")
    ELSE Set(st, "leader_epoch", Ok(-1, st.cur))

\* leader_epoch: read when schema_version >= 3, -1 otherwise.
OffsetCommit_leader_epoch(buf, st) ==
    IF ~st.ok THEN st
    ELSE IF st.val.schema_version >= 3 THEN Field_i32(buf, st, "leader_epoch")
    ELSE Set(st, "leader_epoch", Ok(-1, st.cur))

\* Mutation of the expire_timestamp read: a payload that ends before it is
\* taken to have none.
OffsetCommit_expire_timestamp_if_present(buf, st) ==
    IF ~st.ok THEN st
    ELSE IF st.val.schema_version = 1 /\ parseable(buf, st.cur) > 0
    THEN Field_i64(buf, st, "expire_timestamp")
    ELSE Set(st, "expire_timestamp", Ok(MinusOne64, st.cur))

\* expire_timestamp: read when schema_version == 1, -1 otherwise.
OffsetCommit_expire_timestamp(buf, st) ==
    IF ~st.ok THEN st
    ELSE IF st.val.schema_version = 1 THEN Field_i64(buf, st, "expire_timestamp")
    ELSE Set(st, "expire_timestamp", Ok(MinusOne64, st.cur))

\* parse_payload on the record `self` built from the key; the cursor of the
\* payload parser starts at 0.  Fields in stream order: schema_version,
\* offset, leader_epoch, metadata, commit_timestamp, expire_timestamp.
OffsetCommit_parse_payload(self, buf) ==
    OffsetCommit_expire_timestamp(buf,
        Field_i64(buf,
            Field_str(buf,
                OffsetCommit_leader_epoch(buf,
                    Field_i64(buf,
                        OffsetCommit_schema_checked(
                            Field_i16(buf,
                                Ok([self EXCEPT !.is_tombstone = FALSE], 0),
                                "schema_version")),
                        "offset")),
                "metadata"),
            "commit_timestamp"))

(***************************************************************************)
(* GroupMetadata and its nested structures                                 *)
(***************************************************************************)
TopicPartitions_default == [topic |-> <<>>, partitions |-> <<>>]

ConsumerProtocolSubscription_default ==
    [schema_version |-> 0, subscribed_topics |-> <<>>, user_data |-> <<>>,
     owned_topic_partitions |-> <<>>, generation_id |-> 0, rack_id |-> <<>>]

ConsumerProtocolAssignment_default ==
    [schema_version |-> 0, assigned_topic_partitions |-> <<>>, user_data |-> <<>>]

MemberMetadata_default ==
    [id |-> <<>>, group_instance_id |-> <<>>, client_id |-> <<>>,
     client_host |-> <<>>, rebalance_timeout |-> 0, session_timeout |-> 0,
     subscription |-> ConsumerProtocolSubscription_default,
     assignment |-> ConsumerProtocolAssignment_default]

GroupMetadata_default ==
    [message_version |-> 0, group |-> <<>>, is_tombstone |-> FALSE,
     schema_version |-> 0, protocol_type |-> <<>>, generation |-> 0,
     protocol |-> <<>>, leader |-> <<>>, current_state_timestamp |-> Zero64,
     members |-> <<>>]

\* Vec::with_capacity(n as usize) panics ("capacity overflow") when the byte
\* size of the request exceeds isize::MAX, which a negative n, wrapped to a
\* usize above 2^63, always does.
Panic == KError("panic", 0, "capacity overflow")
with_capacity_panics(n) == n < 0

\* Vec::with_capacity(n as usize) asks the allocator for all n elements at
\* once, before any of them is read.  For the counts the inputs hold, small
\* ones and i32::MAX, the request is either small or of gigabytes (i32::MAX
\* elements of 4 to some hundred bytes); the latter is granted or not as
\* the machine decides, and the process aborts (handle_alloc_error) when it
\* is not.
Abort == KError("abort", 0, "memory allocation failed")
with_capacity_aborts(n) == n >= I32_MAX /\ ~heap_grants

\* for _ in 0..n { v.push(parse_i32(parser)?) }, v being built in st.
RECURSIVE parse_i32_list(_, _, _)
parse_i32_list(buf, st, n) ==
    IF n <= 0 \/ ~st.ok THEN st
    ELSE parse_i32_list(buf, Push(st, parse_i32(buf, st.cur)), n - 1)

\* for _ in 0..n { v.push(parse_str(parser)?) }
RECURSIVE parse_str_list(_, _, _)
parse_str_list(buf, st, n) ==
    IF n <= 0 \/ ~st.ok THEN st
    ELSE parse_str_list(buf, Push(st, parse_str(buf, st.cur)), n - 1)

\* if partitions_len > 0 { with_capacity; loop }: the vector after the count
\* partitions_len has been read; empty when the count is not positive.
TopicPartitions_partitions_of(buf, partitions_len) ==
    IF ~partitions_len.ok THEN partitions_len
    ELSE IF partitions_len.val > 0
    THEN IF with_capacity_aborts(partitions_len.val)
         THEN Err(Abort, partitions_len.cur)
         ELSE parse_i32_list(buf, Ok(<<>>, partitions_len.cur), partitions_len.val)
    ELSE Ok(<<>>, partitions_len.cur)

TopicPartitions_partitions(buf, st) ==
    Set(st, "partitions", TopicPartitions_partitions_of(buf, parse_i32(buf, st.cur)))

TopicPartitions_try_from(buf, cur, version) ==
    IF version > 3 THEN Err(UnableToParseForVersion(version), cur)
    ELSE TopicPartitions_partitions(buf,
             Field_str(buf, Ok(TopicPartitions_default, cur), "topic"))

\* for _ in 0..n { v.push(TopicPartitions::try_from(parser, version)?) }
RECURSIVE parse_topic_partitions_list(_, _, _, _)
parse_topic_partitions_list(buf, st, version, n) ==
    IF n <= 0 \/ ~st.ok THEN st
    ELSE parse_topic_partitions_list(buf,
             Push(st, TopicPartitions_try_from(buf, st.cur, version)), version, n - 1)

\* if len > 0 { with_capacity; loop }: the vector after the count len has
\* been read; empty when the count is not positive.
topic_partitions_of(buf, len, version) ==
    IF ~len.ok THEN len
    ELSE IF len.val > 0
    THEN IF with_capacity_aborts(len.val)
         THEN Err(Abort, len.cur)
         ELSE parse_topic_partitions_list(buf, Ok(<<>>, len.cur), version, len.val)
    ELSE Ok(<<>>, len.cur)

Subscription_version_supported(v) == v >= 0 /\ v <= 3

\* The check that follows the read of the subscription's schema_version.
Subscription_version_checked(st) ==
    IF ~st.ok THEN st
    ELSE IF ~Subscription_version_supported(st.val.schema_version)
    THEN Err(UnsupportedConsumerProtocolSubscriptionVersion(st.val.schema_version),
             st.cur)
    ELSE st

\* Mutation of the subscribed_topics list: the vector is made for the count
\* as it is read, without the test that it is positive.
subscribed_topics_of_unguarded(buf, subscribed_topics_len) ==
    IF ~subscribed_topics_len.ok THEN subscribed_topics_len
    ELSE IF with_capacity_panics(subscribed_topics_len.val)
    THEN Err(Panic, subscribed_topics_len.cur)
    ELSE IF with_capacity_aborts(subscribed_topics_len.val)
    THEN Err(Abort, subscribed_topics_len.cur)
    ELSE parse_str_list(buf, Ok(<<>>, subscribed_topics_len.cur),
                        subscribed_topics_len.val)

subscribed_topics_of(buf, subscribed_topics_len) ==
    IF ~subscribed_topics_len.ok THEN subscribed_topics_len
    ELSE IF subscribed_topics_len.val > 0
    THEN IF with_capacity_aborts(subscribed_topics_len.val)
         THEN Err(Abort, subscribed_topics_len.cur)
         ELSE parse_str_list(buf, Ok(<<>>, subscribed_topics_len.cur),
                             subscribed_topics_len.val)
    ELSE Ok(<<>>, subscribed_topics_len.cur)

Subscription_subscribed_topics(buf, st) ==
    Set(st, "subscribed_topics", subscribed_topics_of(buf, parse_i32(buf, st.cur)))

\* owned_topic_partitions: its count and entries are read when
\* schema_version >= 1, nothing is read otherwise.
Subscription_owned_topic_partitions(buf, st) ==
    IF ~st.ok THEN st
    ELSE IF st.val.schema_version >= 1
    THEN Set(st, "owned_topic_partitions",
             topic_partitions_of(buf, parse_i32(buf, st.cur), st.val.schema_version))
    ELSE st

\* Mutation of the generation_id gate: read from schema_version 1 on.
Subscription_generation_id_from_v1(buf, st) ==
    IF ~st.ok THEN st
    ELSE IF st.val.schema_version >= 1 THEN Field_i32(buf, st, "generation_id")
    ELSE Set(st, "generation_id", Ok(-1, st.cur))

\* generation_id: read when schema_version >= 2, -1 otherwise.
Subscription_generation_id(buf, st) ==
    IF ~st.ok THEN st
    ELSE IF st.val.schema_version >= 2 THEN Field_i32(buf, st, "generation_id")
    ELSE Set(st, "generation_id", Ok(-1, st.cur))

\* rack_id: read when schema_version >= 3, left empty otherwise.
Subscription_rack_id(buf, st) ==
    IF ~st.ok THEN st
    ELSE IF st.val.schema_version >= 3 THEN Field_str(buf, st, "rack_id")
    ELSE st

\* Mutation of ConsumerProtocolSubscription::try_from: the version is
\* checked after subscribed_topics has been read.
ConsumerProtocolSubscription_try_from_late_check(buf) ==
    Subscription_rack_id(buf,
        Subscription_generation_id(buf,
            Subscription_owned_topic_partitions(buf,
                Field_vec_bytes(buf,
                    Subscription_version_checked(
                        Subscription_subscribed_topics(buf,
                            Field_i16(buf,
                                Ok(ConsumerProtocolSubscription_default, 0),
                                "schema_version"))),
                    "user_data"))))

\* The subscription's own parser: buf is the carved blob, the cursor starts
\* at 0.  In stream order: schema_version, subscribed_topics, user_data,
\* owned_topic_partitions, generation_id, rack_id.
ConsumerProtocolSubscription_try_from(buf) ==
    Subscription_rack_id(buf,
        Subscription_generation_id(buf,
            Subscription_owned_topic_partitions(buf,
                Field_vec_bytes(buf,
                    Subscription_subscribed_topics(buf,
                        Subscription_version_checked(
                            Field_i16(buf,
                                Ok(ConsumerProtocolSubscription_default, 0),
                                "schema_version"))),
                    "user_data"))))

\* Mutation of the assignment's range check: only the lower end is tested.
Assignment_version_lower_only(v) == v >= 0

Assignment_version_supported(v) == v >= 0 /\ v <= 3

\* The check that follows the read of the assignment's schema_version.
Assignment_version_checked(st) ==
    IF ~st.ok THEN st
    ELSE IF ~Assignment_version_supported(st.val.schema_version)
    THEN Err(UnsupportedConsumerProtocolAssignmentVersion(st.val.schema_version),
             st.cur)
    ELSE st

Assignment_assigned_topic_partitions(buf, st) ==
    IF ~st.ok THEN st
    ELSE Set(st, "assigned_topic_partitions",
             topic_partitions_of(buf, parse_i32(buf, st.cur), st.val.schema_version))

\* Mutation of ConsumerProtocolAssignment::try_from: user_data is read
\* before the assigned topic-partitions.
ConsumerProtocolAssignment_try_from_user_data_first(buf) ==
    Assignment_assigned_topic_partitions(buf,
        Field_vec_bytes(buf,
            Assignment_version_checked(
                Field_i16(buf, Ok(ConsumerProtocolAssignment_default, 0),
                          "schema_version")),
            "user_data"))

\* The assignment's own parser: buf is the carved blob, the cursor starts at
\* 0.  In stream order: schema_version, assigned_topic_partitions, user_data.
ConsumerProtocolAssignment_try_from(buf) ==
    Field_vec_bytes(buf,
        Assignment_assigned_topic_partitions(buf,
            Assignment_version_checked(
                Field_i16(buf, Ok(ConsumerProtocolAssignment_default, 0),
                          "schema_version"))),
        "user_data")

\* Mutation of from_slice: the nested parser is given the bytes up to the
\* end of the enclosing buffer.
from_slice_unbounded(buf, cur, size) ==
    IF AsUsizeExceeds(size, parseable(buf, cur)) THEN parse_slice(buf, cur, size)
    ELSE Ok(Slice(buf, cur, Len(buf) - cur), cur + size)

\* parser.from_slice(len as usize): the next len bytes as a parser of their
\* own; the outer cursor moves past them.
from_slice(buf, cur, size) == parse_slice(buf, cur, size)

\* from_slice once the blob's length prefix, bytes_len, has been read.
from_slice_of(buf, bytes_len) ==
    IF ~bytes_len.ok THEN bytes_len
    ELSE from_slice(buf, bytes_len.cur, bytes_len.val)

\* A nested decode's result as the enclosing function sees it: the value, or
\* the error, with the enclosing cursor where from_slice left it.
Nested(r, cur) == IF r.ok THEN Ok(r.val, cur) ELSE Err(r.err, cur)

\* ConsumerProtocolSubscription::try_from(&mut subscription_parser)?
subscription_of(subscription_parser) ==
    IF ~subscription_parser.ok THEN subscription_parser
    ELSE Nested(ConsumerProtocolSubscription_try_from(subscription_parser.val),
                subscription_parser.cur)

\* ConsumerProtocolAssignment::try_from(&mut assignment_parser)?
assignment_of(assignment_parser) ==
    IF ~assignment_parser.ok THEN assignment_parser
    ELSE Nested(ConsumerProtocolAssignment_try_from(assignment_parser.val),
                assignment_parser.cur)

\* Mutation of the group_instance_id gate: read from schema_version 2 on.
MemberMetadata_group_instance_id_from_v2(buf, st, schema_version) ==
    IF schema_version >= 2 THEN Field_str(buf, st, "group_instance_id") ELSE st

\* group_instance_id: read when schema_version >= 3, left empty otherwise.
MemberMetadata_group_instance_id(buf, st, schema_version) ==
    IF schema_version >= 3 THEN Field_str(buf, st, "group_instance_id") ELSE st

\* rebalance_timeout: read when schema_version >= 1, 0 otherwise.
MemberMetadata_rebalance_timeout(buf, st, schema_version) ==
    IF schema_version >= 1 THEN Field_i32(buf, st, "rebalance_timeout")
    ELSE Set(st, "rebalance_timeout", Ok(0, st.cur))

MemberMetadata_subscription(buf, st) ==
    Set(st, "subscription",
        subscription_of(from_slice_of(buf, parse_i32(buf, st.cur))))

MemberMetadata_assignment(buf, st) ==
    Set(st, "assignment",
        assignment_of(from_slice_of(buf, parse_i32(buf, st.cur))))

\* Parses one member; schema_version is the one of the enclosing payload.
\* In stream order: id, group_instance_id, client_id, client_host,
\* rebalance_timeout, session_timeout, subscription, assignment.
MemberMetadata_try_from(buf, cur, schema_version) ==
    MemberMetadata_assignment(buf,
        MemberMetadata_subscription(buf,
            Field_i32(buf,
                MemberMetadata_rebalance_timeout(buf,
                    Field_str(buf,
                        Field_str(buf,
                            MemberMetadata_group_instance_id(buf,
                                Field_str(buf, Ok(MemberMetadata_default, cur), "id"),
                                schema_version),
                            "client_id"),
                        "client_host"),
                    schema_version),
                "session_timeout")))

\* for _ in 0..members_len { members.push(MemberMetadata::try_from(..)?) }
RECURSIVE parse_members(_, _, _, _)
parse_members(buf, st, schema_version, n) ==
    IF n <= 0 \/ ~st.ok THEN st
    ELSE parse_members(buf,
             Push(st, MemberMetadata_try_from(buf, st.cur, schema_version)),
             schema_version, n - 1)

\* Mutation of GroupMetadata::try_from: is_tombstone is left at its default.
GroupMetadata_try_from_not_tombstone(buf, cur, message_version) ==
    Field_str(buf,
        Ok([GroupMetadata_default EXCEPT !.message_version = message_version], cur),
        "group")

\* Parses the rest of the key, the cursor standing right after the tag.
GroupMetadata_try_from(buf, cur, message_version) ==
    Field_str(buf,
        Ok([GroupMetadata_default EXCEPT
                !.message_version = message_version,
                !.is_tombstone = TRUE], cur),
        "group")

GroupMetadata_schema_supported(schema_version) ==
    schema_version >= 0 /\ schema_version <= 3

\* The check that follows the read of schema_version.
GroupMetadata_schema_checked(st) ==
    IF ~st.ok THEN st
    ELSE IF ~GroupMetadata_schema_supported(st.val.schema_version)
    THEN Err(UnsupportedGroupMetadataSchema(st.val.schema_version), st.cur)
    ELSE st

\* Mutation of the current_state_timestamp gate: read from schema_version 1 on.
GroupMetadata_current_state_timestamp_from_v1(buf, st) ==
    IF ~st.ok THEN st
    ELSE IF st.val.schema_version >= 1
    THEN Field_i64(buf, st, "current_state_timestamp")
    ELSE Set(st, "current_state_timestamp", Ok(MinusOne64, st.cur))

\* current_state_timestamp: read when schema_version >= 2, -1 otherwise.
GroupMetadata_current_state_timestamp(buf, st) ==
    IF ~st.ok THEN st
    ELSE IF st.val.schema_version >= 2
    THEN Field_i64(buf, st, "current_state_timestamp")
    ELSE Set(st, "current_state_timestamp", Ok(MinusOne64, st.cur))

\* Mutation of the members loop: one iteration short.
members_of_one_short(buf, members_len, schema_version) ==
    IF ~members_len.ok THEN members_len
    ELSE IF with_capacity_panics(members_len.val) THEN Err(Panic, members_len.cur)
    ELSE parse_members(buf, Ok(<<>>, members_len.cur), schema_version,
                       members_len.val - 1)

\* Vec::with_capacity(members_len as usize), then the loop over
\* 0..members_len, once the count members_len has been read.
members_of(buf, members_len, schema_version) ==
    IF ~members_len.ok THEN members_len
    ELSE IF with_capacity_panics(members_len.val) THEN Err(Panic, members_len.cur)
    ELSE IF with_capacity_aborts(members_len.val) THEN Err(Abort, members_len.cur)
    ELSE parse_members(buf, Ok(<<>>, members_len.cur), schema_version, members_len.val)

GroupMetadata_members(buf, st) ==
    IF ~st.ok THEN st
    ELSE Set(st, "members",
             members_of(buf, parse_i32(buf, st.cur), st.val.schema_version))

\* parse_payload on the record `self` built from the key; the cursor of the
\* payload parser starts at 0.  In stream order: schema_version,
\* protocol_type, generation, protocol, leader, current_state_timestamp,
\* members.
GroupMetadata_parse_payload(self, buf) ==
    GroupMetadata_members(buf,
        GroupMetadata_current_state_timestamp(buf,
            Field_str(buf,
                Field_str(buf,
                    Field_i32(buf,
                        Field_str(buf,
                            GroupMetadata_schema_checked(
                                Field_i16(buf,
                                    Ok([self EXCEPT !.is_tombstone = FALSE], 0),
                                    "schema_version")),
                            "protocol_type"),
                        "generation"),
                    "protocol"),
                "leader")))

(***************************************************************************)
(* KonsumerOffsetsData                                                     *)
(***************************************************************************)
MSG_V0_OFFSET_COMMIT == 0
MSG_V1_OFFSET_COMMIT == 1
MSG_V2_GROUP_METADATA == 2

None == [some |-> FALSE, bytes |-> <<>>]
Some(b) == [some |-> TRUE, bytes |-> b]

NoRecord == [none |-> TRUE]
NoError == KError("", 0, "")

\* What a call hands back.  kcur and pcur are where the key cursor and the
\* payload cursor stand when the call ends; phase is the step it ended in.
Returned(variant, rec, kcur, pcur) ==
    [status |-> "ok", variant |-> variant, rec |-> rec, err |-> NoError,
     kcur |-> kcur, pcur |-> pcur, phase |-> "done"]
Failed(e, kcur, pcur, phase) ==
    [status |-> IF e = Panic THEN "panic" ELSE IF e = Abort THEN "abort" ELSE "err",
     variant |-> "",
     rec |-> NoRecord, err |-> e, kcur |-> kcur, pcur |-> pcur, phase |-> phase]
Pending ==
    [status |-> "pending", variant |-> "", rec |-> NoRecord, err |-> NoError,
     kcur |-> 0, pcur |-> 0, phase |-> "start"]

\* Mutation of IsOffsetCommitVersion: the range of the commit arm reaches
\* MSG_V2_GROUP_METADATA.
IsOffsetCommitVersion_upto_v2(message_version) ==
    message_version >= MSG_V0_OFFSET_COMMIT /\ message_version <= MSG_V2_GROUP_METADATA

IsOffsetCommitVersion(message_version) ==
    message_version >= MSG_V0_OFFSET_COMMIT /\ message_version <= MSG_V1_OFFSET_COMMIT

\* Mutation of IsGroupMetadataVersion: every tag from MSG_V2_GROUP_METADATA
\* up takes the membership arm.
IsGroupMetadataVersion_from_v2(message_version) ==
    message_version >= MSG_V2_GROUP_METADATA

IsGroupMetadataVersion(message_version) ==
    message_version = MSG_V2_GROUP_METADATA

\* record.parse_payload(&mut payload_parser)?; Ok(KonsumerOffsetsData::..(record))
WithPayload(variant, kcur, parsed) ==
    IF ~parsed.ok THEN Failed(parsed.err, kcur, parsed.cur, "payload")
    ELSE Returned(variant, parsed.val, kcur, parsed.cur)

\* Mutation of the OffsetCommit arm: a payload with bytes left after its
\* last field is refused.
OffsetCommit_arm_rejecting_leftover(offset_commit, p) ==
    IF ~offset_commit.ok THEN Failed(offset_commit.err, offset_commit.cur, 0, "key")
    ELSE IF ~p.some
    THEN Returned("OffsetCommit", offset_commit.val, offset_commit.cur, 0)
    ELSE IF OffsetCommit_parse_payload(offset_commit.val, p.bytes).ok
            /\ OffsetCommit_parse_payload(offset_commit.val, p.bytes).cur < Len(p.bytes)
    THEN Failed(ByteParsingError("TrailingBytes"), offset_commit.cur,
                OffsetCommit_parse_payload(offset_commit.val, p.bytes).cur, "payload")
    ELSE WithPayload("OffsetCommit", offset_commit.cur,
                     OffsetCommit_parse_payload(offset_commit.val, p.bytes))

\* The OffsetCommit arm of the match on message_version, offset_commit being
\* what OffsetCommit::try_from made of the key.
OffsetCommit_arm(offset_commit, p) ==
    IF ~offset_commit.ok THEN Failed(offset_commit.err, offset_commit.cur, 0, "key")
    ELSE IF ~p.some
    THEN Returned("OffsetCommit", offset_commit.val, offset_commit.cur, 0)
    ELSE WithPayload("OffsetCommit", offset_commit.cur,
                     OffsetCommit_parse_payload(offset_commit.val, p.bytes))

\* Mutation of the GroupMetadata arm: the payload is parsed before the
\* result of the key is looked at.
GroupMetadata_arm_payload_first(group_metadata, p) ==
    IF p.some /\ ~GroupMetadata_parse_payload(GroupMetadata_default, p.bytes).ok
    THEN Failed(GroupMetadata_parse_payload(GroupMetadata_default, p.bytes).err,
                group_metadata.cur,
                GroupMetadata_parse_payload(GroupMetadata_default, p.bytes).cur,
                "payload")
    ELSE IF ~group_metadata.ok
    THEN Failed(group_metadata.err, group_metadata.cur, 0, "key")
    ELSE IF ~p.some
    THEN Returned("GroupMetadata", group_metadata.val, group_metadata.cur, 0)
    ELSE WithPayload("GroupMetadata", group_metadata.cur,
                     GroupMetadata_parse_payload(group_metadata.val, p.bytes))

\* Mutation of the GroupMetadata arm: a payload of no bytes is taken for no
\* payload.
GroupMetadata_arm_empty_payload_tombstone(group_metadata, p) ==
    IF ~group_metadata.ok THEN Failed(group_metadata.err, group_metadata.cur, 0, "key")
    ELSE IF ~p.some \/ p.bytes = <<>>
    THEN Returned("GroupMetadata", group_metadata.val, group_metadata.cur, 0)
    ELSE WithPayload("GroupMetadata", group_metadata.cur,
                     GroupMetadata_parse_payload(group_metadata.val, p.bytes))

\* The GroupMetadata arm of the match on message_version, group_metadata
\* being what GroupMetadata::try_from made of the key.
GroupMetadata_arm(group_metadata, p) ==
    IF ~group_metadata.ok THEN Failed(group_metadata.err, group_metadata.cur, 0, "key")
    ELSE IF ~p.some
    THEN Returned("GroupMetadata", group_metadata.val, group_metadata.cur, 0)
    ELSE WithPayload("GroupMetadata", group_metadata.cur,
                     GroupMetadata_parse_payload(group_metadata.val, p.bytes))

\* match key_parser.parse_i16() { Ok(message_version) => match .., Err(e) => .. }
match_message_version(key_bytes, message_version, p) ==
    IF ~message_version.ok THEN Failed(message_version.err, 0, 0, "tag")
    ELSE IF IsOffsetCommitVersion(message_version.val)
    THEN OffsetCommit_arm(
             OffsetCommit_try_from(key_bytes, message_version.cur, message_version.val), p)
    ELSE IF IsGroupMetadataVersion(message_version.val)
    THEN GroupMetadata_arm(
             GroupMetadata_try_from(key_bytes, message_version.cur, message_version.val), p)
    ELSE Failed(UnsupportedMessageVersion(message_version.val),
                message_version.cur, 0, "tag")

\* Mutation of try_from_bytes: a key too short to hold the tag is reported
\* as a missing key.
try_from_bytes_short_key_missing(k, p) ==
    IF ~k.some \/ Len(k.bytes) < 2 THEN Failed(MessageKeyMissing, 0, 0, "tag")
    ELSE match_message_version(k.bytes, parse_i16(k.bytes, 0), p)

try_from_bytes(k, p) ==
    IF ~k.some THEN Failed(MessageKeyMissing, 0, 0, "tag")
    ELSE match_message_version(k.bytes, parse_i16(k.bytes, 0), p)

\* key.as_deref(), payload.as_deref(): the same bytes, borrowed.
try_from_bytes_vec(k, p) == try_from_bytes(k, p)

(***************************************************************************)
(* The inputs.  A call is given a key and a payload laid out on the wire   *)
(* from a fixture, then cut to a prefix or padded: nothing below is read   *)
(* by the decoder, which only ever sees the bytes.                         *)
(***************************************************************************)
MaxMembers == 2   \* members laid out in a group payload
MaxTopics == 1    \* subscribed topics per member
MaxTps == 1       \* owned / assigned TopicPartitions per member
MaxParts == 1     \* partitions per TopicPartitions
MaxDrop == 1      \* bytes cut off the end of an input
MaxExtra == 1     \* bytes padded after the end of an input

EncI16(n) ==
    LET u == IF n < 0 THEN n + 65536 ELSE n IN <<u \div 256, u % 256>>

EncU31(m) ==
    <<m \div 16777216, (m \div 65536) % 256, (m \div 256) % 256, m % 256>>

EncI32(n) ==
    IF n >= 0 THEN EncU31(n)
    ELSE [i \in 1..4 |-> 255 - EncU31(-n - 1)[i]]

EncI64(x) == EncI32(x[1]) \o EncI32(x[2])

\* A string on the wire: the announced length, then the bytes.
Str(b) == [len |-> Len(b), bytes |-> b]
NegStr == [len |-> -1, bytes |-> <<>>]
EncStr(s) == EncI16(s.len) \o s.bytes
EncBytes(b) == EncI32(Len(b)) \o b

RECURSIVE Concat(_)
Concat(ss) == IF ss = <<>> THEN <<>> ELSE Head(ss) \o Concat(Tail(ss))

Pad(n) == [i \in 1..n |-> 1]

\* The first keep bytes of b, padded when keep exceeds its length.
Keep(b, keep) ==
    IF keep <= Len(b) THEN SubSeq(b, 1, keep) ELSE b \o Pad(keep - Len(b))

Ends(b) == {k \in 0..(Len(b) + MaxExtra) : k >= Len(b) - MaxDrop}
Prefixes(b) == 0..(Len(b) + MaxExtra)

\* "g", "g" followed by e-acute, a negative length, a byte that is not UTF-8
StrFixes == {Str(<<103>>), Str(<<103, 195, 169>>), NegStr, Str(<<103, 255>>), Str(<<>>)}
I64Fixes == {<<1, 2>>, MinusOne64}
I32Fixes == {4, -1}

(* Keys *)
Tags == {-1, 0, 1, 2, 3, 99, 256}

\* A key is laid out as its tag asks: group alone under
\* MSG_V2_GROUP_METADATA, group, topic and partition under any other tag.
KeyFix(tag, group, partition) ==
    [present |-> TRUE, tag |-> tag, group |-> group, topic |-> Str(<<116>>),
     partition |-> partition, with_topic |-> tag # MSG_V2_GROUP_METADATA]
NoKey == [present |-> FALSE, tag |-> 0, group |-> Str(<<>>), topic |-> Str(<<>>),
          partition |-> 0, with_topic |-> FALSE]
PlainKey(tag) == KeyFix(tag, Str(<<103>>), 7)

\* The key of one kind under the tag of the other.
OtherLayout(k) == [k EXCEPT !.with_topic = ~@]

KeyFixes ==
    {KeyFix(tag, group, 7) : tag \in Tags, group \in StrFixes}
    \cup {KeyFix(tag, Str(<<103>>), -1) : tag \in Tags \ {MSG_V2_GROUP_METADATA}}
    \cup {OtherLayout(PlainKey(tag)) :
            tag \in MSG_V0_OFFSET_COMMIT..MSG_V2_GROUP_METADATA}

KeyBytes(k) ==
    EncI16(k.tag) \o EncStr(k.group)
    \o (IF k.with_topic THEN EncStr(k.topic) \o EncI32(k.partition) ELSE <<>>)

(* Commit payloads *)
CommitFix(v, offset, leader_epoch, metadata, commit_timestamp, expire_timestamp) ==
    [v |-> v, offset |-> offset, leader_epoch |-> leader_epoch, metadata |-> metadata,
     commit_timestamp |-> commit_timestamp, expire_timestamp |-> expire_timestamp]

PlainCommit(v) == CommitFix(v, <<1, 2>>, 4, Str(<<109>>), <<3, 4>>, <<5, 6>>)

\* leader_epoch is on the wire from version 3 on, expire_timestamp in
\* version 1 only: a fixture varies a field only where it is laid out.
CommitCanonical(c) ==
    /\ (c.v < 3 => c.leader_epoch = -1)
    /\ (c.v # 1 => c.expire_timestamp = MinusOne64)

CommitFixes ==
    {c \in {CommitFix(v, o, le, md, ct, et) :
                v \in 0..3, o \in I64Fixes, le \in I32Fixes, md \in StrFixes,
                ct \in I64Fixes, et \in I64Fixes} : CommitCanonical(c)}
    \cup {PlainCommit(v) : v \in {-1, 4, 256}}

CommitBytes(c) ==
    EncI16(c.v) \o EncI64(c.offset)
    \o (IF c.v >= 3 THEN EncI32(c.leader_epoch) ELSE <<>>)
    \o EncStr(c.metadata) \o EncI64(c.commit_timestamp)
    \o (IF c.v = 1 THEN EncI64(c.expire_timestamp) ELSE <<>>)

(* Group payloads.  Every member of a fixture has the same shape; its      *)
(* values are told apart by its index i (0-based) in the list.             *)
GroupFix(v, n, count, sv, av, nt, ntp, np, neg) ==
    [v |-> v,          \* schema_version of the payload
     n |-> n,          \* members laid out
     count |-> count,  \* members announced
     sv |-> sv,        \* version of every subscription blob
     av |-> av,        \* version of every assignment blob
     nt |-> nt,        \* subscribed topics per member
     ntp |-> ntp,      \* owned and assigned TopicPartitions per member
     np |-> np,        \* partitions per TopicPartitions
     neg |-> neg,      \* an empty list announces a negative count, not 0
     negcount |-> -1,  \* that negative count
     sdelta |-> 0,     \* bytes every subscription blob holds beyond its fields
                       \* (negative: the blob is cut short of them)
     adelta |-> 0,     \* the same for every assignment blob
     sann |-> "len",   \* what a subscription's length prefix announces: the
                       \* blob's length ("len"), -1 ("neg"), i32::MAX ("max")
     aann |-> "len",   \* the same for an assignment's length prefix
     huge |-> ""]      \* the lists whose count is i32::MAX instead: none,
                       \* "topics", "tps" (owned and assigned) or "parts"

PlainGroup(v, n) == GroupFix(v, n, n, 1, 2, 1, 1, 1, FALSE)

ListShapes ==
    {<<nt, ntp, np>> \in (0..MaxTopics) \X (0..MaxTps) \X (0..MaxParts) :
        ntp = 0 => np = 0}

GroupFixes ==
    \* the supported layouts
    {GroupFix(v, n, n, sv, 3 - sv, l[1], l[2], l[3], FALSE) :
        v \in 0..3, n \in 1..MaxMembers, sv \in 0..3, l \in ListShapes}
    \cup {GroupFix(v, 0, 0, 0, 0, 0, 0, 0, FALSE) : v \in 0..3}
    \* empty lists announced by a negative count
    \cup {GroupFix(v, 1, 1, sv, 3 - sv, l[1], l[2], l[3], TRUE) :
            v \in 0..3, sv \in 0..3,
            l \in {x \in ListShapes : x[1] = 0 \/ x[2] = 0 \/ x[3] = 0}}
    \* nested blobs of an unsupported version
    \cup {GroupFix(v, n, n, sa[1], sa[2], 1, 1, 1, FALSE) :
            v \in 0..3, n \in 1..MaxMembers,
            sa \in {<<-1, 0>>, <<4, 0>>, <<0, -1>>, <<0, 4>>, <<256, 0>>}}
    \* a member count that is negative, or larger than what follows
    \cup {GroupFix(v, n, IF more THEN n + 1 ELSE -1, 1, 2, 1, 1, 1, FALSE) :
            v \in 0..3, n \in 0..1, more \in BOOLEAN}
    \* payloads of an unsupported version
    \cup {PlainGroup(v, 1) : v \in {-1, 4, 256}}

\* The versions a nested blob is laid out with: the supported ones and some
\* outside them.
BlobVersions == {-1, 0, 1, 2, 3, 4, 256}

ListCount(n, empty) == IF n = 0 THEN empty ELSE n

\* The count announced for a list of g that holds n elements.
Count(g, list, n) ==
    IF g.huge = list THEN I32_MAX
    ELSE ListCount(n, IF g.neg THEN g.negcount ELSE 0)

M_id(i) == <<97 + i>>
M_group_instance_id(i) == <<105, 48 + i>>
M_client_id(i) == <<99, 48 + i>>
M_client_host(i) == <<104>>
M_rebalance_timeout(i) == 30 + i
M_session_timeout(i) == 10 + i
M_topic(i, j) == <<116, 48 + i, 48 + j>>
M_sub_user_data(i) == <<7, i>>
M_asg_user_data(i) == <<9, i, 9>>
M_generation_id(i) == 5 + i
M_rack_id(i) == <<114, 48 + i>>
M_tp_topic(i, j) == <<111, 48 + i, 48 + j>>
M_partition(i, j, k) == 100 * i + 10 * j + k

TpBytes(g, i, j) ==
    EncStr(Str(M_tp_topic(i, j))) \o EncI32(Count(g, "parts", g.np))
    \o Concat([k \in 1..g.np |-> EncI32(M_partition(i, j, k))])

TpListBytes(g, i) ==
    EncI32(Count(g, "tps", g.ntp)) \o Concat([j \in 1..g.ntp |-> TpBytes(g, i, j)])

SubscriptionBytes(g, i) ==
    EncI16(g.sv)
    \o EncI32(Count(g, "topics", g.nt))
    \o Concat([j \in 1..g.nt |-> EncStr(Str(M_topic(i, j)))])
    \o EncBytes(M_sub_user_data(i))
    \o (IF g.sv >= 1 THEN TpListBytes(g, i) ELSE <<>>)
    \o (IF g.sv >= 2 THEN EncI32(M_generation_id(i)) ELSE <<>>)
    \o (IF g.sv >= 3 THEN EncStr(Str(M_rack_id(i))) ELSE <<>>)

AssignmentBytes(g, i) ==
    EncI16(g.av) \o TpListBytes(g, i) \o EncBytes(M_asg_user_data(i))

\* A blob: the bytes of its fields, delta more (padding) or fewer of them.
Blob(b, delta) == Keep(b, Len(b) + delta)
SubscriptionBlob(g, i) == Blob(SubscriptionBytes(g, i), g.sdelta)
AssignmentBlob(g, i) == Blob(AssignmentBytes(g, i), g.adelta)

\* The length prefix of a blob, then the blob.
EncBlob(ann, blob) ==
    EncI32(IF ann = "neg" THEN -1 ELSE IF ann = "max" THEN I32_MAX ELSE Len(blob))
    \o blob

\* A member up to its subscription.
MemberHeadBytes(g, i) ==
    EncStr(Str(M_id(i)))
    \o (IF g.v >= 3 THEN EncStr(Str(M_group_instance_id(i))) ELSE <<>>)
    \o EncStr(Str(M_client_id(i))) \o EncStr(Str(M_client_host(i)))
    \o (IF g.v >= 1 THEN EncI32(M_rebalance_timeout(i)) ELSE <<>>)
    \o EncI32(M_session_timeout(i))

MemberBytes(g, i) ==
    MemberHeadBytes(g, i)
    \o EncBlob(g.sann, SubscriptionBlob(g, i))
    \o EncBlob(g.aann, AssignmentBlob(g, i))

G_protocol_type == <<99, 111>>
G_generation == 256 + 2
G_protocol == <<114>>
G_leader == <<97>>
G_current_state_timestamp == <<7, 8>>

\* A group payload up to its members, their count included.
GroupHeadBytes(g) ==
    EncI16(g.v) \o EncStr(Str(G_protocol_type)) \o EncI32(G_generation)
    \o EncStr(Str(G_protocol)) \o EncStr(Str(G_leader))
    \o (IF g.v >= 2 THEN EncI64(G_current_state_timestamp) ELSE <<>>)
    \o EncI32(g.count)

GroupBytes(g) ==
    GroupHeadBytes(g) \o Concat([i \in 1..g.n |-> MemberBytes(g, i - 1)])

\* Blobs that hold more or fewer bytes than their fields take, announced by
\* their true length; the versions in them supported or not.
BlobDeltaFixes ==
    {[GroupFix(v, n, n, sa[1], sa[2], 1, 1, 1, FALSE) EXCEPT
            !.sdelta = d[1], !.adelta = d[2]] :
        v \in {0, 3}, n \in 1..MaxMembers,
        sa \in {<<0, 3>>, <<1, 2>>, <<2, 1>>, <<3, 0>>, <<4, 0>>, <<0, 4>>, <<-1, -1>>},
        d \in ((-MaxDrop)..MaxExtra) \X ((-MaxDrop)..MaxExtra)}

\* Blobs cut right after their version, or one byte into it.
BlobVersionOnlyFixes ==
    {[g EXCEPT !.sdelta = k - Len(SubscriptionBytes(g, 0))] :
        g \in {GroupFix(v, 1, 1, sv, 0, 1, 1, 1, FALSE) :
                  v \in {0, 3}, sv \in BlobVersions},
        k \in (2 - MaxDrop)..2}
    \cup {[g EXCEPT !.adelta = k - Len(AssignmentBytes(g, 0))] :
        g \in {GroupFix(v, 1, 1, 0, av, 1, 1, 1, FALSE) :
                  v \in {0, 3}, av \in BlobVersions},
        k \in (2 - MaxDrop)..2}

\* Blobs whose length prefix is negative, or i32::MAX.
BlobLengthFixes ==
    {[PlainGroup(v, n) EXCEPT !.sann = sa[1], !.aann = sa[2]] :
        v \in {0, 3}, n \in 1..MaxMembers,
        sa \in {<<"neg", "len">>, <<"max", "len">>, <<"len", "neg">>,
                <<"len", "max">>, <<"neg", "neg">>}}

\* A member count, or a list count, of i32::MAX.
HugeCountFixes ==
    {GroupFix(v, n, I32_MAX, 1, 2, 1, 1, 1, FALSE) : v \in {0, 3}, n \in 0..1}
    \cup {[GroupFix(v, 1, 1, sv, 3 - sv, 1, 1, 1, FALSE) EXCEPT !.huge = h] :
            v \in {0, 3}, sv \in {0, 1}, h \in {"topics", "tps", "parts"}}

\* Every supported subscription version with every supported assignment
\* version, the lists empty and not.
VersionCrossFixes ==
    {GroupFix(v, 1, 1, sv, av, l[1], l[2], l[3], neg) :
        v \in {0, 3}, sv \in 0..3, av \in 0..3, l \in ListShapes, neg \in BOOLEAN}

\* Empty lists announced by other negative counts than -1.
NegativeCountFixes ==
    {[GroupFix(v, n, n, sv, 3 - sv, l[1], l[2], l[3], TRUE) EXCEPT !.negcount = c] :
        v \in {0, 3}, n \in 1..MaxMembers, sv \in 0..3,
        l \in {x \in ListShapes : x[1] = 0 \/ x[2] = 0 \/ x[3] = 0},
        c \in {-2, -32768, -I32_MAX}}

(* The calls checked: a fixture names the key and the payload of one call. *)
NoCommit == PlainCommit(0)
NoGroup == PlainGroup(0, 0)

Fixture(k, kkeep, pk, c, g, pkeep) ==
    [k |-> k,          \* the key laid out (NoKey: the call has no key)
     kkeep |-> kkeep,  \* bytes of it handed to the call
     pk |-> pk,        \* "none": no payload; "commit" / "group": c / g laid out
     c |-> c, g |-> g,
     pkeep |-> pkeep]  \* bytes of the payload handed to the call

PayloadBytes(pk, c, g) ==
    IF pk = "commit" THEN CommitBytes(c)
    ELSE IF pk = "group" THEN GroupBytes(g)
    ELSE <<>>

\* The payloads a key under study is tried with.
ProbePayloads ==
    {<<"none", 0>>, <<"commit", 0>>, <<"commit", Len(CommitBytes(NoCommit))>>,
     <<"group", Len(GroupBytes(NoGroup))>>}

GroupKey == PlainKey(MSG_V2_GROUP_METADATA)

\* every key, whole, cut and padded, with a few payloads
KeyFixtures ==
    \/ \E k \in KeyFixes :
         \E kkeep \in Prefixes(KeyBytes(k)), pp \in ProbePayloads :
            fixture = Fixture(k, kkeep, pp[1], NoCommit, NoGroup, pp[2])
    \/ \E pp \in ProbePayloads :
            fixture = Fixture(NoKey, 0, pp[1], NoCommit, NoGroup, pp[2])

\* every commit payload, whole, cut and padded, under both commit tags
CommitFixtures ==
    \E c \in CommitFixes, tag \in {MSG_V0_OFFSET_COMMIT, MSG_V1_OFFSET_COMMIT} :
        \E pkeep \in Prefixes(CommitBytes(c)) :
            fixture = Fixture(PlainKey(tag), Len(KeyBytes(PlainKey(tag))),
                              "commit", c, NoGroup, pkeep)

\* every group payload, whole, shortened and padded
GroupFixtures ==
    \E g \in GroupFixes :
        \E pkeep \in Ends(GroupBytes(g)) :
            fixture = Fixture(GroupKey, Len(KeyBytes(GroupKey)),
                              "group", NoCommit, g, pkeep)

\* group payloads whose blobs are cut, padded or announced with a length
\* they do not have, or with a count of i32::MAX; every pair of nested
\* versions; empty lists under several negative counts
BlobFixtures ==
    \E g \in BlobDeltaFixes \cup BlobVersionOnlyFixes \cup BlobLengthFixes
              \cup HugeCountFixes \cup VersionCrossFixes \cup NegativeCountFixes :
        \E pkeep \in Ends(GroupBytes(g)) :
            fixture = Fixture(GroupKey, Len(KeyBytes(GroupKey)),
                              "group", NoCommit, g, pkeep)

\* one group payload per version, the unsupported -1 and 4 among them, cut
\* at every length
GroupPrefixFixtures ==
    \E v \in -1..4 :
        \E pkeep \in Prefixes(GroupBytes(PlainGroup(v, 1))) :
            fixture = Fixture(GroupKey, Len(KeyBytes(GroupKey)),
                              "group", NoCommit, PlainGroup(v, 1), pkeep)

\* Group payloads cut at every length: no member, two members, blobs with
\* bytes left over, empty lists.
TruncationFixes ==
    {PlainGroup(0, 0), PlainGroup(3, 2),
     [PlainGroup(2, 1) EXCEPT !.sdelta = MaxExtra, !.adelta = MaxExtra],
     GroupFix(1, 1, 1, 3, 0, 0, 0, 0, TRUE),
     GroupFix(3, 1, 1, 0, 3, 1, 1, 0, FALSE)}

TruncationFixtures ==
    \E g \in TruncationFixes :
        \E pkeep \in Prefixes(GroupBytes(g)) :
            fixture = Fixture(GroupKey, Len(KeyBytes(GroupKey)),
                              "group", NoCommit, g, pkeep)

\* a payload of the other kind than the key announces
CrossFixtures ==
    \E v \in 0..3 :
        \/ fixture = Fixture(GroupKey, Len(KeyBytes(GroupKey)), "commit",
                             PlainCommit(v), NoGroup, Len(CommitBytes(PlainCommit(v))))
        \/ fixture = Fixture(PlainKey(MSG_V0_OFFSET_COMMIT),
                             Len(KeyBytes(PlainKey(MSG_V0_OFFSET_COMMIT))), "group",
                             NoCommit, PlainGroup(v, 1), Len(GroupBytes(PlainGroup(v, 1))))

\* The values a commit record is laid out from, for its round trip: the
\* strings of a record are texts, laid out with their length.
TextFixes == {Str(<<>>), Str(<<103>>), Str(<<103, 195, 169>>)}
PartitionFixes == {0, -1, I32_MAX}

RoundTripKeys ==
    {[KeyFix(tag, group, partition) EXCEPT !.topic = topic] :
        tag \in {MSG_V0_OFFSET_COMMIT, MSG_V1_OFFSET_COMMIT},
        group \in TextFixes, topic \in TextFixes, partition \in PartitionFixes}

\* A field that a version does not lay out is not on the wire, whatever
\* the fixture holds for it.
RoundTripCommits ==
    {CommitFix(v, <<n, 2>>, n, md, <<3, n>>, <<n, n>>) :
        v \in 0..3, n \in {5, -1}, md \in TextFixes}

\* every such key with every such payload, as laid out
RoundTripFixtures ==
    \E k \in RoundTripKeys, c \in RoundTripCommits :
        fixture = Fixture(k, Len(KeyBytes(k)), "commit", c, NoGroup, Len(CommitBytes(c)))

KeyOf(f) == IF f.k.present THEN Some(Keep(KeyBytes(f.k), f.kkeep)) ELSE None
PayloadOf(f) ==
    IF f.pk = "none" THEN None ELSE Some(Keep(PayloadBytes(f.pk, f.c, f.g), f.pkeep))

Init ==
    /\ \/ KeyFixtures
       \/ CommitFixtures
       \/ GroupFixtures
       \/ BlobFixtures
       \/ GroupPrefixFixtures
       \/ CrossFixtures
       \/ RoundTripFixtures
       \/ TruncationFixtures
    /\ key = KeyOf(fixture)
    /\ payload = PayloadOf(fixture)
    /\ result = Pending
    /\ heap_grants \in BOOLEAN

\* KonsumerOffsetsData::try_from_bytes(key, payload)
TryFromBytes ==
    /\ result.status = "pending"
    /\ result' = try_from_bytes(key, payload)
    /\ UNCHANGED <<key, payload, fixture, heap_grants>>

\* KonsumerOffsetsData::try_from_bytes_vec(key, payload)
TryFromBytesVec ==
    /\ result.status = "pending"
    /\ result' = try_from_bytes_vec(key, payload)
    /\ UNCHANGED <<key, payload, fixture, heap_grants>>

Next == TryFromBytes \/ TryFromBytesVec

Spec == Init /\ [][Next]_vars

(***************************************************************************)
(* The helpers on their own: parse_str, parse_vec_bytes and                *)
(* TopicPartitions::try_from called on a parser over the bytes in payload, *)
(* its cursor at fixture.pre.  The call has no key; result.out is what     *)
(* the helper returned.                                                    *)
(***************************************************************************)
MaxBefore == 1    \* bytes of the buffer before the cursor

\* "", "g", "g" and e-acute, the euro sign, an emoji
ValidTexts ==
    {<<>>, <<103>>, <<103, 195, 169>>, <<226, 130, 172>>, <<240, 159, 152, 128>>}

\* a byte that is never UTF-8, a lone continuation byte, a sequence cut
\* short, an overlong form, a surrogate, a code point above U+10FFFF
InvalidTexts ==
    {<<255>>, <<103, 255>>, <<128>>, <<195>>, <<226, 130>>, <<192, 128>>,
     <<237, 160, 128>>, <<244, 144, 128, 128>>}

\* what lies in the buffer after the bytes announced
Tails == {<<>>, <<255>>, <<169>>}

\* One call: the helper, the bytes before the cursor, the length the prefix
\* announces, the bytes after the prefix, whether the announced ones are
\* UTF-8, how many bytes of prefix and content the buffer holds, and for
\* TopicPartitions::try_from the version passed and the caller.
Call(op, pre, len, bytes, utf8, keep, version, parent) ==
    [op |-> op, pre |-> pre, len |-> len, bytes |-> bytes, utf8 |-> utf8,
     keep |-> keep, version |-> version, parent |-> parent]

\* <<len, bytes, utf8>>: a text announced by its length; one announced
\* longer than what the buffer holds; a negative length
StrCases ==
    {<<Len(t), t \o tl, TRUE>> : t \in ValidTexts, tl \in Tails}
    \cup {<<Len(t), t \o tl, FALSE>> : t \in InvalidTexts, tl \in Tails}
    \cup {<<Len(t) + k, t, TRUE>> :
            t \in ValidTexts \cup InvalidTexts, k \in 1..MaxDrop}
    \cup {<<32767, t, TRUE>> : t \in ValidTexts \cup InvalidTexts}
    \cup {<<l, t, TRUE>> : l \in {-1, -2, -32768}, t \in {<<>>, <<103>>, <<255>>}}

StrCalls ==
    \E c \in StrCases, pre \in 0..MaxBefore :
        \E keep \in {0, 1, 2 + Len(c[2])} :
            fixture = Call("parse_str", pre, c[1], c[2], c[3], keep, 0, "")

\* <<len, bytes>>
VecCases ==
    {<<Len(t), t \o tl>> : t \in ValidTexts \cup InvalidTexts, tl \in Tails}
    \cup {<<Len(t) + k, t>> : t \in ValidTexts \cup InvalidTexts, k \in 1..MaxDrop}
    \cup {<<I32_MAX, t>> : t \in ValidTexts \cup InvalidTexts}
    \cup {<<l, t>> : l \in {-1, -2, -I32_MAX}, t \in {<<>>, <<103>>, <<255>>}}

VecCalls ==
    \E c \in VecCases, pre \in 0..MaxBefore :
        \E keep \in (0..3) \cup {4 + Len(c[2])} :
            fixture = Call("parse_vec_bytes", pre, c[1], c[2], TRUE, keep, 0, "")

\* a TopicPartitions on the wire: topic "t", one partition, 7
TpWire == EncStr(Str(<<116>>)) \o EncI32(1) \o EncI32(7)

TpCalls ==
    \E version \in {-1, 0, 3, 4, 5, 256, 32767}, pre \in 0..MaxBefore,
       parent \in {"ConsumerProtocolSubscription", "ConsumerProtocolAssignment"} :
        \E keep \in Prefixes(TpWire) :
            fixture = Call("TopicPartitions", pre, 0, TpWire, TRUE, keep,
                           version, parent)

\* What follows the cursor in the buffer of a call.
Wire(f) ==
    IF f.op = "parse_str" THEN EncI16(f.len) \o f.bytes
    ELSE IF f.op = "parse_vec_bytes" THEN EncI32(f.len) \o f.bytes
    ELSE f.bytes

BufferOf(f) == Pad(f.pre) \o Keep(Wire(f), f.keep)

Handed(r) == [status |-> "returned", out |-> r]

UnitInit ==
    /\ \/ StrCalls
       \/ VecCalls
       \/ TpCalls
    /\ key = None
    /\ payload = Some(BufferOf(fixture))
    /\ result = Pending
    /\ heap_grants \in BOOLEAN

\* parse_str(parser)
ParseStr ==
    /\ result.status = "pending"
    /\ fixture.op = "parse_str"
    /\ result' = Handed(parse_str(payload.bytes, fixture.pre))
    /\ UNCHANGED <<key, payload, fixture, heap_grants>>

\* parse_vec_bytes(parser)
ParseVecBytes ==
    /\ result.status = "pending"
    /\ fixture.op = "parse_vec_bytes"
    /\ result' = Handed(parse_vec_bytes(payload.bytes, fixture.pre))
    /\ UNCHANGED <<key, payload, fixture, heap_grants>>

\* TopicPartitions::try_from(parser, version)
TopicPartitionsTryFrom ==
    /\ result.status = "pending"
    /\ fixture.op = "TopicPartitions"
    /\ result' = Handed(TopicPartitions_try_from(payload.bytes, fixture.pre,
                                                 fixture.version))
    /\ UNCHANGED <<key, payload, fixture, heap_grants>>

UnitNext == ParseStr \/ ParseVecBytes \/ TopicPartitionsTryFrom

UnitSpec == UnitInit /\ [][UnitNext]_vars

(***************************************************************************)
(* Properties.  Each is stated on the state after the call: the inputs in  *)
(* key and payload, what the call handed back in result.                   *)
(***************************************************************************)
Done == result.status # "pending"

\* The key holds a tag: it is present and at least two bytes long.
KeyHasTag == key.some /\ Len(key.bytes) >= 2

\* The leading big-endian i16 of the key, read off the bytes.
KeyTag == I16(key.bytes[1], key.bytes[2])

\* C1: the call fails with MessageKeyMissing if and only if key is None,
\* whatever the payload; a key that is present but shorter than 2 bytes (the
\* empty key included) fails with ByteParsingError (not enough bytes).
C1_MissingKeyIffNone ==
    Done =>
        /\ (result.err = MessageKeyMissing) <=> ~key.some
        /\ (key.some /\ Len(key.bytes) < 2) =>
               /\ result.status = "err"
               /\ result.err = ByteParsingError("NotEnoughBytes")

\* C1 witness: a call without a key but with a payload has failed with
\* MessageKeyMissing.
C1_Witness ==
    /\ ~key.some
    /\ payload.some
    /\ result.status = "err"
    /\ result.err = MessageKeyMissing

\* C2: on success the variant follows from the key's leading i16 alone: tag
\* 0 or 1 gives OffsetCommit, tag 2 gives GroupMetadata, and the record's
\* message_version is that tag.
C2_VariantFromTag ==
    result.status = "ok" =>
        /\ KeyHasTag
        /\ result.rec.message_version = KeyTag
        /\ \/ KeyTag \in {0, 1} /\ result.variant = "OffsetCommit"
           \/ KeyTag = 2 /\ result.variant = "GroupMetadata"

\* C2 witness: a key tagged 1 was decoded with a payload into an
\* OffsetCommit of message_version 1.
C2_Witness ==
    /\ result.status = "ok"
    /\ KeyHasTag /\ KeyTag = 1
    /\ payload.some
    /\ result.variant = "OffsetCommit"
    /\ result.rec.message_version = 1

\* C3: a key of at least 2 bytes whose tag v is none of 0, 1, 2 fails with
\* UnsupportedMessageVersion(v) and no record, whatever follows the tag in
\* the key and whatever the payload.
C3_UnsupportedTag ==
    (Done /\ KeyHasTag /\ KeyTag \notin {0, 1, 2}) =>
        /\ result.status = "err"
        /\ result.err = UnsupportedMessageVersion(KeyTag)
        /\ result.rec = NoRecord
        /\ result.variant = ""

\* C3 witness: a key tagged 99 and cut short, with a payload, was rejected
\* with UnsupportedMessageVersion(99).
C3_Witness ==
    /\ KeyHasTag /\ KeyTag = 99
    /\ Len(key.bytes) < Len(KeyBytes(fixture.k))
    /\ payload.some
    /\ result.err = UnsupportedMessageVersion(99)

\* C4: in every returned record, of either variant, is_tombstone is true if
\* and only if the payload was None.
C4_TombstoneIffNoPayload ==
    result.status = "ok" => (result.rec.is_tombstone <=> ~payload.some)

\* C4 witness: a GroupMetadata decoded from a key and a payload, and not a
\* tombstone.
C4_Witness ==
    /\ result.status = "ok"
    /\ result.variant = "GroupMetadata"
    /\ payload.some
    /\ ~result.rec.is_tombstone

\* The payload-derived fields of a record: what remains once the fields
\* read from the key are blanked.
OffsetCommit_payload_part(rec) ==
    [rec EXCEPT !.message_version = 0, !.group = <<>>, !.topic = <<>>,
                !.partition = 0, !.is_tombstone = FALSE]
GroupMetadata_payload_part(rec) ==
    [rec EXCEPT !.message_version = 0, !.group = <<>>, !.is_tombstone = FALSE]

\* C5: with no payload and a key that decodes, every payload-derived field
\* is at its default whatever the key: a commit record has offset 0, empty
\* metadata and zero timestamps, a membership record has empty
\* protocol_type, protocol and leader and no members.
C5_TombstoneDefaults ==
    (result.status = "ok" /\ ~payload.some) =>
        /\ result.variant = "OffsetCommit" =>
               /\ result.rec.schema_version = 0
               /\ result.rec.offset = <<0, 0>>
               /\ result.rec.metadata = <<>>
               /\ result.rec.commit_timestamp = <<0, 0>>
               /\ result.rec.expire_timestamp = <<0, 0>>
               /\ OffsetCommit_payload_part(result.rec) = OffsetCommit_default
        /\ result.variant = "GroupMetadata" =>
               /\ result.rec.schema_version = 0
               /\ result.rec.protocol_type = <<>>
               /\ result.rec.generation = 0
               /\ result.rec.protocol = <<>>
               /\ result.rec.leader = <<>>
               /\ result.rec.current_state_timestamp = <<0, 0>>
               /\ result.rec.members = <<>>
               /\ GroupMetadata_payload_part(result.rec) = GroupMetadata_default

\* C5 witness: a commit tombstone whose key carries a group of more than
\* one byte.
C5_Witness ==
    /\ result.status = "ok"
    /\ ~payload.some
    /\ result.variant = "OffsetCommit"
    /\ Len(result.rec.group) > 1
    /\ result.rec.offset = <<0, 0>>

\* C6: in every returned OffsetCommit, leader_epoch is -1 unless it was read
\* from the stream, that is unless there is a payload of schema_version 3:
\* schema versions 0 to 2 and records decoded without a payload have -1.
C6_LeaderEpochMinusOneUnlessRead ==
    (result.status = "ok" /\ result.variant = "OffsetCommit"
        /\ ~(payload.some /\ result.rec.schema_version = 3)) =>
        result.rec.leader_epoch = -1

\* The key was decoded: the call went on to the payload, or returned.
KeyDecoded == result.phase \in {"payload", "done"}

\* The payload holds a schema_version: it is present and at least two bytes
\* long.
PayloadHasVersion == payload.some /\ Len(payload.bytes) >= 2

\* The leading big-endian i16 of the payload, read off the bytes.
PayloadVersion == I16(payload.bytes[1], payload.bytes[2])

\* C7: a payload whose leading i16 v is outside 0..3 is rejected with
\* UnsupportedOffsetCommitSchema(v) under a commit key and with
\* UnsupportedGroupMetadataSchema(v) under a membership key, right after the
\* two bytes of the version and whatever follows them (nothing, a cut
\* payload, a whole one); and every record returned from a payload has its
\* schema_version in 0..3.
C7_UnsupportedSchema ==
    /\ (KeyDecoded /\ PayloadHasVersion /\ PayloadVersion \notin 0..3) =>
           /\ result.status = "err"
           /\ result.rec = NoRecord
           /\ result.pcur = 2
           /\ KeyTag \in {0, 1} =>
                  result.err = UnsupportedOffsetCommitSchema(PayloadVersion)
           /\ KeyTag = 2 =>
                  result.err = UnsupportedGroupMetadataSchema(PayloadVersion)
    /\ (result.status = "ok" /\ payload.some) =>
           /\ result.rec.schema_version \in 0..3
           /\ result.rec.schema_version = PayloadVersion

\* C7 witness: a membership payload cut right after its version, 4, was
\* rejected with UnsupportedGroupMetadataSchema(4).
C7_Witness ==
    /\ KeyDecoded /\ KeyTag = 2
    /\ payload.some /\ Len(payload.bytes) = 2
    /\ PayloadVersion = 4
    /\ result.err = UnsupportedGroupMetadataSchema(4)

\* The string a fixture lays out, as parse_str is to return it.
StrValue(s) == IF s.len < 0 THEN <<>> ELSE s.bytes

\* The call was given a commit key and the whole of a commit payload of a
\* supported version whose metadata is UTF-8 (and maybe padding after it).
WholeCommit ==
    /\ KeyDecoded /\ KeyTag \in {0, 1}
    /\ fixture.pk = "commit"
    /\ fixture.c.v \in 0..3
    /\ ValidUtf8(fixture.c.metadata.bytes)
    /\ fixture.pkeep >= Len(CommitBytes(fixture.c))

\* C8: a commit payload laid out as offset, leader_epoch (only if v >= 3),
\* metadata, commit_timestamp, expire_timestamp (only if v = 1) decodes to
\* exactly these values: leader_epoch is the stream's value when v = 3 and
\* -1 when v is 0, 1 or 2; expire_timestamp is the stream's value when
\* v = 1 and -1 when v is 0, 2 or 3, also when the stream holds -1 values.
C8_CommitFieldOrder ==
    WholeCommit =>
        /\ result.status = "ok"
        /\ result.rec.schema_version = fixture.c.v
        /\ result.rec.offset = fixture.c.offset
        /\ result.rec.leader_epoch =
               (IF fixture.c.v = 3 THEN fixture.c.leader_epoch ELSE -1)
        /\ result.rec.metadata = StrValue(fixture.c.metadata)
        /\ result.rec.commit_timestamp = fixture.c.commit_timestamp
        /\ result.rec.expire_timestamp =
               (IF fixture.c.v = 1 THEN fixture.c.expire_timestamp ELSE <<-1, -1>>)
        /\ result.pcur = Len(CommitBytes(fixture.c))

\* C8 witness: a version 3 payload with leader_epoch 4 in the stream and a
\* commit_timestamp of -1 was decoded.
C8_Witness ==
    /\ WholeCommit
    /\ fixture.c.v = 3
    /\ fixture.c.commit_timestamp = <<-1, -1>>
    /\ result.status = "ok"
    /\ result.rec.leader_epoch = 4
    /\ result.rec.expire_timestamp = <<-1, -1>>

\* A membership record was returned for a membership payload of a fixture.
GroupDecoded ==
    /\ result.status = "ok"
    /\ result.variant = "GroupMetadata"
    /\ fixture.pk = "group"

\* The call was given a membership key and the whole of a membership payload
\* whose versions are all supported, whose member count is the number of
\* members that follow (and maybe padding after them), whose list counts
\* are those of the elements laid out and whose blobs hold all of their
\* fields (and maybe padding after them).
WholeGroup ==
    /\ KeyDecoded /\ KeyTag = 2
    /\ fixture.pk = "group"
    /\ fixture.g.v \in 0..3 /\ fixture.g.sv \in 0..3 /\ fixture.g.av \in 0..3
    /\ fixture.g.count = fixture.g.n /\ fixture.g.huge = ""
    /\ fixture.g.sdelta >= 0 /\ fixture.g.adelta >= 0
    /\ fixture.g.sann = "len" /\ fixture.g.aann = "len"
    /\ fixture.pkeep >= Len(GroupBytes(fixture.g))

\* C9: a membership payload of a supported version v, laid out as
\* protocol_type, generation, protocol, leader, then current_state_timestamp
\* only if v >= 2, then the members, decodes; the record has the stream's
\* values for the first four, and current_state_timestamp is the i64 that
\* follows them when v >= 2, and -1, with no byte of the stream spent on it,
\* when v < 2.
C9_CurrentStateTimestamp ==
    /\ WholeGroup => result.status = "ok"
    /\ GroupDecoded =>
        /\ result.rec.schema_version = fixture.g.v
        /\ result.rec.protocol_type = G_protocol_type
        /\ result.rec.generation = G_generation
        /\ result.rec.protocol = G_protocol
        /\ result.rec.leader = G_leader
        /\ result.rec.current_state_timestamp =
               (IF fixture.g.v >= 2 THEN G_current_state_timestamp ELSE <<-1, -1>>)
        /\ result.pcur = Len(GroupBytes(fixture.g))

\* C9 witness: a version 1 payload with a member was decoded, its
\* current_state_timestamp -1.
C9_Witness ==
    /\ GroupDecoded
    /\ fixture.g.v = 1
    /\ Len(result.rec.members) = 1
    /\ result.rec.current_state_timestamp = <<-1, -1>>

\* The TopicPartitions j (1-based) of member i (0-based) as a fixture lays
\* it out.
TopicPartitionsLaidOut(g, i, j) ==
    [topic |-> M_tp_topic(i, j),
     partitions |-> [k \in 1..g.np |-> M_partition(i, j, k)]]

TopicPartitionsListLaidOut(g, i) ==
    [j \in 1..g.ntp |-> TopicPartitionsLaidOut(g, i, j)]

\* Member i (0-based) as a fixture lays it out.
MemberLaidOut(g, i) ==
    [id |-> M_id(i),
     group_instance_id |-> IF g.v >= 3 THEN M_group_instance_id(i) ELSE <<>>,
     client_id |-> M_client_id(i),
     client_host |-> M_client_host(i),
     rebalance_timeout |-> IF g.v >= 1 THEN M_rebalance_timeout(i) ELSE 0,
     session_timeout |-> M_session_timeout(i),
     subscription |->
        [schema_version |-> g.sv,
         subscribed_topics |-> [j \in 1..g.nt |-> M_topic(i, j)],
         user_data |-> M_sub_user_data(i),
         owned_topic_partitions |->
            IF g.sv >= 1 THEN TopicPartitionsListLaidOut(g, i) ELSE <<>>,
         generation_id |-> IF g.sv >= 2 THEN M_generation_id(i) ELSE -1,
         rack_id |-> IF g.sv >= 3 THEN M_rack_id(i) ELSE <<>>],
     assignment |->
        [schema_version |-> g.av,
         assigned_topic_partitions |-> TopicPartitionsListLaidOut(g, i),
         user_data |-> M_asg_user_data(i)]]

\* C10: a membership record decoded from a payload that announces n >= 0
\* members has exactly n members, the i-th of them the i-th of the stream
\* with its subscription (owned_topic_partitions included from subscription
\* version 1 on) and its assignment: none dropped, doubled or out of place.
C10_MembersInOrder ==
    GroupDecoded =>
        /\ fixture.g.count >= 0
        /\ Len(result.rec.members) = fixture.g.count
        /\ \A i \in 1..fixture.g.count :
               result.rec.members[i] = MemberLaidOut(fixture.g, i - 1)

\* C10 witness: two members were decoded, distinct, the second with an
\* owned TopicPartitions that has a partition.
C10_Witness ==
    /\ GroupDecoded
    /\ Len(result.rec.members) = 2
    /\ result.rec.members[1].id # result.rec.members[2].id
    /\ Len(result.rec.members[2].subscription.owned_topic_partitions) = 1
    /\ Len(result.rec.members[2].subscription.owned_topic_partitions[1].partitions) = 1
    /\ Len(result.rec.members[2].assignment.assigned_topic_partitions) = 1

\* C11: in every member of a decoded membership record group_instance_id and
\* rebalance_timeout follow the payload's schema_version v alone, whatever
\* the versions of the member's subscription and assignment blobs:
\* group_instance_id is the stream's string when v >= 3 and empty, with no
\* byte spent on it (client_id and client_host are the strings that follow
\* id), when v < 3; rebalance_timeout is the stream's i32 when v >= 1 and 0,
\* with no byte spent on it (session_timeout is the i32 that follows
\* client_host), when v = 0.  A whole payload of supported versions decodes.
C11_MemberFieldsByContainerVersion ==
    /\ WholeGroup => result.status = "ok"
    /\ GroupDecoded =>
        /\ Len(result.rec.members) = fixture.g.n
        /\ result.pcur = Len(GroupBytes(fixture.g))
        /\ \A i \in 1..fixture.g.n :
            /\ result.rec.members[i].id = M_id(i - 1)
            /\ result.rec.members[i].group_instance_id =
                   (IF fixture.g.v >= 3 THEN M_group_instance_id(i - 1) ELSE <<>>)
            /\ result.rec.members[i].client_id = M_client_id(i - 1)
            /\ result.rec.members[i].client_host = M_client_host(i - 1)
            /\ result.rec.members[i].rebalance_timeout =
                   (IF fixture.g.v >= 1 THEN M_rebalance_timeout(i - 1) ELSE 0)
            /\ result.rec.members[i].session_timeout = M_session_timeout(i - 1)

\* C11 witness: a version 0 payload whose member carries a version 3
\* subscription was decoded: the member has no group_instance_id and a
\* rebalance_timeout of 0, its subscription a rack_id.
C11_Witness ==
    /\ GroupDecoded
    /\ fixture.g.v = 0 /\ fixture.g.sv = 3
    /\ Len(result.rec.members) = 1
    /\ result.rec.members[1].group_instance_id = <<>>
    /\ result.rec.members[1].rebalance_timeout = 0
    /\ result.rec.members[1].session_timeout = M_session_timeout(0)
    /\ result.rec.members[1].subscription.rack_id = M_rack_id(0)

\* C12: in every member of a decoded membership record the subscription's
\* fields follow the subscription's own version s alone, whatever the
\* payload's schema_version: subscribed_topics and user_data are the
\* stream's, in that order; owned_topic_partitions is the list that follows
\* user_data when s >= 1 and empty when s = 0; generation_id is the i32 that
\* follows when s >= 2 and -1 otherwise; rack_id is the string that follows
\* when s >= 3 and empty otherwise.  A whole payload of supported versions
\* decodes, every byte of it consumed.
C12_SubscriptionFieldsByOwnVersion ==
    /\ WholeGroup =>
        /\ result.status = "ok"
        /\ result.pcur = Len(GroupBytes(fixture.g))
    /\ GroupDecoded =>
        \A i \in 1..Len(result.rec.members) :
            /\ result.rec.members[i].subscription.schema_version = fixture.g.sv
            /\ result.rec.members[i].subscription.subscribed_topics =
                   [j \in 1..fixture.g.nt |-> M_topic(i - 1, j)]
            /\ result.rec.members[i].subscription.user_data = M_sub_user_data(i - 1)
            /\ result.rec.members[i].subscription.owned_topic_partitions =
                   (IF fixture.g.sv >= 1
                    THEN TopicPartitionsListLaidOut(fixture.g, i - 1) ELSE <<>>)
            /\ result.rec.members[i].subscription.generation_id =
                   (IF fixture.g.sv >= 2 THEN M_generation_id(i - 1) ELSE -1)
            /\ result.rec.members[i].subscription.rack_id =
                   (IF fixture.g.sv >= 3 THEN M_rack_id(i - 1) ELSE <<>>)

\* C12 witness: a version 3 payload whose member carries a version 1
\* subscription was decoded: owned_topic_partitions was read, generation_id
\* is -1 and rack_id empty.
C12_Witness ==
    /\ GroupDecoded
    /\ fixture.g.v = 3 /\ fixture.g.sv = 1
    /\ Len(result.rec.members) = 1
    /\ Len(result.rec.members[1].subscription.owned_topic_partitions) = 1
    /\ result.rec.members[1].subscription.generation_id = -1
    /\ result.rec.members[1].subscription.rack_id = <<>>
    /\ result.rec.members[1].group_instance_id = M_group_instance_id(0)

\* Where the payload cursor stands after the subscription blob, and after the
\* assignment blob, of the first member of a group payload.
SubscriptionEnd(g) ==
    Len(GroupHeadBytes(g)) + Len(MemberHeadBytes(g, 0)) + 4 + Len(SubscriptionBlob(g, 0))
AssignmentEnd(g) == SubscriptionEnd(g) + 4 + Len(AssignmentBlob(g, 0))

\* The call was given a membership key and the whole of a membership payload
\* of a supported version, with at least one member, as many as announced,
\* and no list count beyond the elements laid out.
MembersLaidOut ==
    /\ KeyDecoded /\ KeyTag = 2
    /\ fixture.pk = "group"
    /\ fixture.g.v \in 0..3
    /\ fixture.g.count = fixture.g.n /\ fixture.g.n >= 1
    /\ fixture.g.huge = ""
    /\ fixture.pkeep >= Len(GroupBytes(fixture.g))

\* The first member's subscription blob was carved out of such a payload.
SubscriptionCarved == MembersLaidOut /\ fixture.g.sann = "len"

\* The first member's subscription decodes and its assignment blob was carved.
AssignmentCarved ==
    /\ SubscriptionCarved
    /\ fixture.g.sv \in 0..3 /\ fixture.g.sdelta >= 0
    /\ fixture.g.aann = "len"

\* C13: a subscription blob that holds a version v outside 0..3 (at least its
\* two bytes; nothing, a part or all of the fields after them) ends the call
\* with UnsupportedConsumerProtocolSubscriptionVersion(v) and no record, the
\* payload cursor right after the blob; an assignment blob with a version v
\* outside 0..3, reached after a subscription that decodes, ends it with
\* UnsupportedConsumerProtocolAssignmentVersion(v) likewise; and these two
\* errors come with no other version than the one laid out, never a
\* supported one.
C13_NestedVersionRejected ==
    /\ (SubscriptionCarved /\ Len(SubscriptionBlob(fixture.g, 0)) >= 2
            /\ fixture.g.sv \notin 0..3) =>
        /\ result.status = "err"
        /\ result.err = UnsupportedConsumerProtocolSubscriptionVersion(fixture.g.sv)
        /\ result.rec = NoRecord
        /\ result.pcur = SubscriptionEnd(fixture.g)
    /\ (AssignmentCarved /\ Len(AssignmentBlob(fixture.g, 0)) >= 2
            /\ fixture.g.av \notin 0..3) =>
        /\ result.status = "err"
        /\ result.err = UnsupportedConsumerProtocolAssignmentVersion(fixture.g.av)
        /\ result.rec = NoRecord
        /\ result.pcur = AssignmentEnd(fixture.g)
    /\ (KeyDecoded /\ KeyTag = 2 /\ fixture.pk = "group"
            /\ result.err.kind = "UnsupportedConsumerProtocolSubscriptionVersion") =>
        /\ result.err.version = fixture.g.sv
        /\ fixture.g.sv \notin 0..3
    /\ (KeyDecoded /\ KeyTag = 2 /\ fixture.pk = "group"
            /\ result.err.kind = "UnsupportedConsumerProtocolAssignmentVersion") =>
        /\ result.err.version = fixture.g.av
        /\ fixture.g.av \notin 0..3

\* C13 witness: a subscription blob of two bytes, the version 4, in a payload
\* of two blobs was rejected with
\* UnsupportedConsumerProtocolSubscriptionVersion(4).
C13_Witness ==
    /\ SubscriptionCarved
    /\ Len(SubscriptionBlob(fixture.g, 0)) = 2
    /\ fixture.g.sv = 4
    /\ result.status = "err"
    /\ result.err = UnsupportedConsumerProtocolSubscriptionVersion(4)
    /\ result.pcur = SubscriptionEnd(fixture.g)

\* C14: a nested decoder sees the bytes its length prefix announces and no
\* other.  When every blob holds its fields, with or without bytes left
\* over after them, the record decodes to the members laid out, the leftover
\* ignored, each blob left behind at its announced end: the fields and
\* members that follow are read from there and the payload cursor ends where
\* the last blob ends.  When a blob of a supported version is cut short of
\* its fields the call fails with insufficient data, whatever bytes follow
\* the blob in the payload, the payload cursor right after the blob.
C14_BlobIsolation ==
    /\ WholeGroup =>
        /\ result.status = "ok"
        /\ Len(result.rec.members) = fixture.g.n
        /\ \A i \in 1..fixture.g.n :
              /\ result.rec.members[i].subscription =
                     MemberLaidOut(fixture.g, i - 1).subscription
              /\ result.rec.members[i].assignment =
                     MemberLaidOut(fixture.g, i - 1).assignment
              /\ result.rec.members[i].id = M_id(i - 1)
        /\ result.pcur = Len(GroupBytes(fixture.g))
    /\ (SubscriptionCarved /\ fixture.g.sv \in 0..3 /\ fixture.g.sdelta < 0) =>
        /\ result.status = "err"
        /\ result.err = NotEnoughBytes
        /\ result.rec = NoRecord
        /\ result.pcur = SubscriptionEnd(fixture.g)
    /\ (AssignmentCarved /\ fixture.g.av \in 0..3 /\ fixture.g.adelta < 0) =>
        /\ result.status = "err"
        /\ result.err = NotEnoughBytes
        /\ result.rec = NoRecord
        /\ result.pcur = AssignmentEnd(fixture.g)

\* C14 witness: two members whose subscription and assignment blobs each
\* hold a byte more than their fields were decoded, the second member as
\* laid out.
C14_Witness ==
    /\ WholeGroup
    /\ fixture.g.sdelta > 0 /\ fixture.g.adelta > 0
    /\ fixture.g.n = 2
    /\ result.status = "ok"
    /\ result.rec.members[2] = MemberLaidOut(fixture.g, 1)
    /\ result.pcur = Len(GroupBytes(fixture.g))

\* A helper was called on its own and has returned.
Called(op) == result.status = "returned" /\ fixture.op = op

C16_NegativeLengthIsEmpty ==
    (Called("parse_str") /\ fixture.keep >= 2 /\ fixture.len < 0) =>
        result.out = Ok(<<>>, fixture.pre + 2)

\* C16 witness: a prefix of -2 followed by a byte, the cursor not at the
\* start of the buffer: the empty string, the byte not consumed.
C16_Witness ==
    /\ Called("parse_str")
    /\ fixture.len = -2 /\ fixture.pre = 1
    /\ Len(payload.bytes) = 4
    /\ result.out = Ok(<<>>, 3)

\* C17: parse_str on a buffer that holds, at the cursor, a length L >= 0:
\* with fewer than 2 bytes left it fails with NotEnoughBytes; with fewer
\* than L bytes after the prefix it fails with NotEnoughBytes; with L bytes
\* that are not UTF-8 it fails with StringParseFail; otherwise it returns
\* those L bytes, the cursor 2 + L further.  It fails in no other case and
\* with no other error.
C17_ParseStr ==
    /\ (Called("parse_str") /\ fixture.keep < 2) =>
        ~result.out.ok /\ result.out.err = NotEnoughBytes
    /\ (Called("parse_str") /\ fixture.keep >= 2 /\ fixture.len >= 0) =>
        IF fixture.len > fixture.keep - 2
        THEN ~result.out.ok /\ result.out.err = NotEnoughBytes
        ELSE IF ~fixture.utf8
        THEN ~result.out.ok /\ result.out.err = StringParseFail
        ELSE result.out = Ok(SubSeq(fixture.bytes, 1, fixture.len),
                             fixture.pre + 2 + fixture.len)
    /\ (Called("parse_str") /\ ~result.out.ok) =>
        result.out.err \in {NotEnoughBytes, StringParseFail}

\* C17 witness: "g" and e-acute, three bytes, followed by a byte that is not
\* UTF-8: the text is returned, the cursor 5 further, the byte after it not
\* read.
C17_Witness ==
    /\ Called("parse_str")
    /\ fixture.len = 3 /\ fixture.bytes = <<103, 195, 169, 255>>
    /\ fixture.keep = 6
    /\ result.out = Ok(<<103, 195, 169>>, fixture.pre + 5)

\* C18: parse_vec_bytes on a buffer that holds, at the cursor, an i32 L:
\* with fewer than 4 bytes left, with L negative or with fewer than L bytes
\* after the prefix it fails with NotEnoughBytes; otherwise it returns the L
\* bytes after the prefix as they are, the cursor 4 + L further.
C18_ParseVecBytes ==
    Called("parse_vec_bytes") =>
        IF fixture.keep < 4 \/ fixture.len < 0 \/ fixture.len > fixture.keep - 4
        THEN ~result.out.ok /\ result.out.err = NotEnoughBytes
        ELSE result.out = Ok(SubSeq(fixture.bytes, 1, fixture.len),
                             fixture.pre + 4 + fixture.len)

\* C18 witness: a length of -1 with a byte after it was refused with
\* NotEnoughBytes.
C18_Witness ==
    /\ Called("parse_vec_bytes")
    /\ fixture.len = -1 /\ fixture.keep = 5
    /\ ~result.out.ok
    /\ result.out.err = NotEnoughBytes

\* C19: every call returns: a record, or one of the errors of
\* KonsumerOffsetsError; it neither panics nor aborts, whatever counts and
\* lengths the inputs announce.
C19_NeverPanics ==
    Done => /\ result.status \in {"ok", "err"}
            /\ result.status = "err" =>
                   result.err.kind \in
                       {"MessageKeyMissing", "ByteParsingError",
                        "UnsupportedMessageVersion", "UnsupportedOffsetCommitSchema",
                        "UnsupportedGroupMetadataSchema",
                        "UnsupportedConsumerProtocolSubscriptionVersion",
                        "UnsupportedConsumerProtocolAssignmentVersion",
                        "UnableToParseForVersion"}

\* The reads of a call in the order the decoder makes them, reckoned from
\* the fixture alone.  One read: the bytes it needs from the cursor on (its
\* length prefix included), the bytes of its length prefix (0 for a number),
\* the error it raises once those bytes are there (NoError: none) and how
\* far past its start the cursor stands when it does.
Read(need, hdr, fault, at) == [need |-> need, hdr |-> hdr, fault |-> fault, at |-> at]

NumRead(size) == Read(size, 0, NoError, 0)

StrRead(s) ==
    Read(Len(EncStr(s)), 2,
         IF s.len >= 0 /\ ~ValidUtf8(s.bytes) THEN StringParseFail ELSE NoError, 2)

BytesRead(b) == Read(Len(EncBytes(b)), 4, NoError, 0)

VersionRead(v, unsupported) ==
    Read(2, 0, IF v \in 0..3 THEN NoError ELSE unsupported, 2)

\* The outcome of a sequence of reads on keep bytes, from read i on with the
\* cursor at o: the first read that lacks bytes fails with NotEnoughBytes
\* (after its length prefix if that much is there), the first that raises
\* an error fails with it, and nothing after the first failure counts.
RECURSIVE Walk(_, _, _, _)
Walk(reads, i, o, keep) ==
    IF i > Len(reads) THEN [failed |-> FALSE, err |-> NoError, cur |-> o]
    ELSE IF reads[i].need > keep - o
    THEN [failed |-> TRUE, err |-> NotEnoughBytes,
          cur |-> IF reads[i].hdr <= keep - o THEN o + reads[i].hdr ELSE o]
    ELSE IF reads[i].fault # NoError
    THEN [failed |-> TRUE, err |-> reads[i].fault, cur |-> o + reads[i].at]
    ELSE Walk(reads, i + 1, o + reads[i].need, keep)

\* A blob: its length prefix, the carving of as many bytes, then the nested
\* reads on them; their first failure is the blob's.
BlobRead(ann, blob, nested) ==
    Read(IF ann = "len" THEN 4 + Len(blob) ELSE I32_MAX, 4,
         Walk(nested, 1, 0, Len(blob)).err, 4 + Len(blob))

KeyReads(k) ==
    <<Read(2, 0, IF k.tag \in MSG_V0_OFFSET_COMMIT..MSG_V2_GROUP_METADATA
                 THEN NoError ELSE UnsupportedMessageVersion(k.tag), 2),
      StrRead(k.group)>>
    \o (IF k.tag # MSG_V2_GROUP_METADATA THEN <<StrRead(k.topic), NumRead(4)>>
        ELSE <<>>)

CommitReads(c) ==
    <<VersionRead(c.v, UnsupportedOffsetCommitSchema(c.v)), NumRead(8)>>
    \o (IF c.v >= 3 THEN <<NumRead(4)>> ELSE <<>>)
    \o <<StrRead(c.metadata), NumRead(8)>>
    \o (IF c.v = 1 THEN <<NumRead(8)>> ELSE <<>>)

TpReads(g) ==
    <<StrRead(Str(M_tp_topic(0, 1))), NumRead(4)>> \o [k \in 1..g.np |-> NumRead(4)]

TpListReads(g) == <<NumRead(4)>> \o Concat([j \in 1..g.ntp |-> TpReads(g)])

SubscriptionReads(g) ==
    <<VersionRead(g.sv, UnsupportedConsumerProtocolSubscriptionVersion(g.sv)),
      NumRead(4)>>
    \o [j \in 1..g.nt |-> StrRead(Str(M_topic(0, j)))]
    \o <<BytesRead(M_sub_user_data(0))>>
    \o (IF g.sv >= 1 THEN TpListReads(g) ELSE <<>>)
    \o (IF g.sv >= 2 THEN <<NumRead(4)>> ELSE <<>>)
    \o (IF g.sv >= 3 THEN <<StrRead(Str(M_rack_id(0)))>> ELSE <<>>)

AssignmentReads(g) ==
    <<VersionRead(g.av, UnsupportedConsumerProtocolAssignmentVersion(g.av))>>
    \o TpListReads(g)
    \o <<BytesRead(M_asg_user_data(0))>>

\* The reads of one member: they take as many bytes for every member.
MemberReads(g) ==
    <<StrRead(Str(M_id(0)))>>
    \o (IF g.v >= 3 THEN <<StrRead(Str(M_group_instance_id(0)))>> ELSE <<>>)
    \o <<StrRead(Str(M_client_id(0))), StrRead(Str(M_client_host(0)))>>
    \o (IF g.v >= 1 THEN <<NumRead(4)>> ELSE <<>>)
    \o <<NumRead(4),
         BlobRead(g.sann, SubscriptionBlob(g, 0), SubscriptionReads(g)),
         BlobRead(g.aann, AssignmentBlob(g, 0), AssignmentReads(g))>>

\* The read of a member's id past the last member laid out: what is there,
\* if anything, is padding, whose first two bytes announce 257 bytes.
PaddingRead == Read(2 + 257, 2, NoError, 0)

\* The member count: a negative one panics, one of i32::MAX aborts when the
\* allocator refuses.
CountRead(count) ==
    Read(4, 0,
         IF count < 0 THEN Panic
         ELSE IF count >= I32_MAX /\ ~heap_grants THEN Abort
         ELSE NoError, 4)

GroupReads(g) ==
    <<VersionRead(g.v, UnsupportedGroupMetadataSchema(g.v)),
      StrRead(Str(G_protocol_type)), NumRead(4),
      StrRead(Str(G_protocol)), StrRead(Str(G_leader))>>
    \o (IF g.v >= 2 THEN <<NumRead(8)>> ELSE <<>>)
    \o <<CountRead(g.count)>>
    \o Concat([i \in 1..g.n |-> MemberReads(g)])
    \o (IF g.count > g.n THEN <<PaddingRead>> ELSE <<>>)

NoWalk == [failed |-> FALSE, err |-> NoError, cur |-> 0]

KeyWalk == Walk(KeyReads(fixture.k), 1, 0, fixture.kkeep)

PayloadWalk ==
    IF fixture.pk = "commit" THEN Walk(CommitReads(fixture.c), 1, 0, fixture.pkeep)
    ELSE IF fixture.pk = "group" THEN Walk(GroupReads(fixture.g), 1, 0, fixture.pkeep)
    ELSE NoWalk

StatusOf(e) ==
    IF e = NoError THEN "ok" ELSE IF e = Panic THEN "panic"
    ELSE IF e = Abort THEN "abort" ELSE "err"

\* How a call ends: at the first failure of the key's reads, the payload
\* not looked at; else at the first failure of the payload's; else well.
Outcome(kw, pw) ==
    IF kw.failed
    THEN [status |-> StatusOf(kw.err), err |-> kw.err, kcur |-> kw.cur, pcur |-> 0]
    ELSE [status |-> StatusOf(pw.err), err |-> pw.err, kcur |-> kw.cur, pcur |-> pw.cur]

FirstFailure ==
    IF ~fixture.k.present
    THEN [status |-> "err", err |-> MessageKeyMissing, kcur |-> 0, pcur |-> 0]
    ELSE Outcome(KeyWalk, PayloadWalk)

\* The decoder reads what the fixture laid out: the key is laid out as its
\* tag asks, and the payload, if the key's reads get that far, is of the
\* kind the tag announces, its list counts those of the elements laid out.
ReadAsLaidOut ==
    fixture.k.present =>
        /\ fixture.k.with_topic = (fixture.k.tag # MSG_V2_GROUP_METADATA)
        /\ \/ KeyWalk.failed
           \/ fixture.pk = "none"
           \/ fixture.pk = "commit" /\ fixture.k.tag \in {0, 1}
           \/ fixture.pk = "group" /\ fixture.k.tag = 2 /\ fixture.g.huge = ""

\* C20: a call ends at the first failure in read order: the tag, the key's
\* fields, then the payload's fields in stream order, a nested blob's where
\* the blob stands; the error is that failure's, the cursors stand where it
\* left them, nothing after was read; no record comes with an error; and a
\* call that fails in the key returns what it returns without a payload,
\* the payload cursor at 0.
C20_FailFast ==
    /\ (Done /\ ReadAsLaidOut) =>
        [status |-> result.status, err |-> result.err,
         kcur |-> result.kcur, pcur |-> result.pcur] = FirstFailure
    /\ (Done /\ result.status # "ok") =>
        /\ result.rec = NoRecord
        /\ result.variant = ""
        /\ result.err # NoError
    /\ (Done /\ result.status = "ok") => result.err = NoError
    /\ (Done /\ result.phase \in {"tag", "key"}) =>
        /\ result.status = "err"
        /\ result.pcur = 0
        /\ result = try_from_bytes(key, None)

\* C20 witness: a commit payload whose metadata is not UTF-8 and whose
\* commit_timestamp is cut was refused for the metadata, the first of the
\* two in the stream, the cursor right after the metadata's length.
C20_Witness ==
    /\ KeyDecoded /\ KeyTag = 1
    /\ fixture.pk = "commit"
    /\ fixture.c.v = 3
    /\ fixture.c.metadata = Str(<<103, 255>>)
    /\ fixture.pkeep = Len(CommitBytes(fixture.c)) - 1
    /\ result.status = "err"
    /\ result.err = StringParseFail
    /\ result.pcur = 2 + 8 + 4 + 2

\* The bytes of the fields a key's tag asks for: the tag and group, then
\* topic and partition unless the tag is MSG_V2_GROUP_METADATA.
KeyFieldsLen(k) ==
    2 + Len(EncStr(k.group))
    + (IF k.tag # MSG_V2_GROUP_METADATA THEN Len(EncStr(k.topic)) + 4 ELSE 0)

\* The call was given all the fields its key's tag asks for, the strings
\* among them UTF-8 (and maybe bytes after them).
WholeKey ==
    /\ fixture.k.present
    /\ fixture.k.tag \in MSG_V0_OFFSET_COMMIT..MSG_V2_GROUP_METADATA
    /\ fixture.k.tag # MSG_V2_GROUP_METADATA => fixture.k.with_topic
    /\ ValidUtf8(StrValue(fixture.k.group))
    /\ fixture.kkeep >= KeyFieldsLen(fixture.k)

\* The payload is of the kind the key's tag announces.
PayloadAsTagged ==
    \/ fixture.pk = "commit" /\ fixture.k.tag \in {0, 1}
    \/ fixture.pk = "group" /\ fixture.k.tag = 2

\* C21 as stated: on every successful call the key cursor stands at the end
\* of the key and, when a payload is present, the payload cursor at the end
\* of the payload.
C21_ConsumedFully ==
    result.status = "ok" =>
        /\ result.kcur = Len(key.bytes)
        /\ payload.some => result.pcur = Len(payload.bytes)

\* C21 amended: on every successful call the key cursor stands at the end
\* of the last field the key's tag asks for and the payload cursor at the end
\* of the payload's last field (at 0 without a payload), neither beyond the
\* bytes given; bytes that follow the last field are left unread and are no
\* error: a key or a payload with all of its fields and bytes after them
\* decodes, the cursor short of the end.  The cursors stand at the end of
\* the key and of the payload when nothing follows the fields.
C21_ConsumedToLastField ==
    /\ result.status = "ok" =>
        /\ result.kcur = KeyFieldsLen(fixture.k)
        /\ result.kcur <= Len(key.bytes)
        /\ ~payload.some => result.pcur = 0
        /\ payload.some => result.pcur <= Len(payload.bytes)
        /\ (payload.some /\ PayloadAsTagged) =>
               result.pcur = Len(PayloadBytes(fixture.pk, fixture.c, fixture.g))
    /\ (Done /\ WholeKey /\ fixture.pk = "none") =>
        /\ result.status = "ok"
        /\ fixture.kkeep > KeyFieldsLen(fixture.k) => result.kcur < Len(key.bytes)
    /\ (WholeCommit /\ fixture.pkeep > Len(CommitBytes(fixture.c))) =>
        /\ result.status = "ok"
        /\ result.pcur < Len(payload.bytes)
    /\ (WholeGroup /\ fixture.pkeep > Len(GroupBytes(fixture.g))) =>
        /\ result.status = "ok"
        /\ result.pcur < Len(payload.bytes)

\* C21 witness: a commit payload with a byte after its last field was
\* decoded, the payload cursor one short of the end, the key read to its
\* end.
C21_Witness ==
    /\ WholeCommit
    /\ fixture.c.v = 1
    /\ Len(payload.bytes) = Len(CommitBytes(fixture.c)) + 1
    /\ result.status = "ok"
    /\ result.pcur = Len(payload.bytes) - 1
    /\ result.kcur = Len(key.bytes)

\* A string a record can hold, laid out with its length: a text.
IsText(s) == s.len = Len(s.bytes) /\ ValidUtf8(s.bytes)

\* The call was given a commit record laid out field by field: the key of a
\* commit tag with group, topic and partition, the payload of a supported
\* schema_version with the fields of that version, neither cut nor padded.
CommitLaidOutWhole ==
    /\ Done
    /\ fixture.k.present /\ fixture.k.tag \in {0, 1} /\ fixture.k.with_topic
    /\ fixture.pk = "commit" /\ fixture.c.v \in 0..3
    /\ IsText(fixture.k.group) /\ IsText(fixture.k.topic) /\ IsText(fixture.c.metadata)
    /\ fixture.kkeep = Len(KeyBytes(fixture.k))
    /\ fixture.pkeep = Len(CommitBytes(fixture.c))

\* The OffsetCommit whose fields are the values key k and payload c were
\* laid out from.
OffsetCommitLaidOut(k, c) ==
    [message_version |-> k.tag,
     group |-> k.group.bytes,
     topic |-> k.topic.bytes,
     partition |-> k.partition,
     is_tombstone |-> FALSE,
     schema_version |-> c.v,
     offset |-> c.offset,
     leader_epoch |-> IF c.v = 3 THEN c.leader_epoch ELSE -1,
     metadata |-> c.metadata.bytes,
     commit_timestamp |-> c.commit_timestamp,
     expire_timestamp |-> IF c.v = 1 THEN c.expire_timestamp ELSE MinusOne64]

\* C22: round trip for commit records.  For message_version 0 and 1,
\* schema_version 0 to 3 and every choice of group, topic, partition, offset,
\* metadata and timestamps (leader_epoch for version 3, expire_timestamp for
\* version 1), decoding the key and the payload laid out field by field in
\* the specified order returns an OffsetCommit with exactly those values,
\* and the payload decoder consumes exactly the bytes of the payload, the
\* key decoder those of the key.
C22_CommitRoundTrip ==
    CommitLaidOutWhole =>
        /\ result.status = "ok"
        /\ result.variant = "OffsetCommit"
        /\ result.rec = OffsetCommitLaidOut(fixture.k, fixture.c)
        /\ result.pcur = Len(payload.bytes)
        /\ result.kcur = Len(key.bytes)

\* C22 witness: a record of message_version 1 and schema_version 3, its
\* group and topic different texts, one of them of more than one byte per
\* character, its partition i32::MAX and its offset negative, came back as
\* laid out.
C22_Witness ==
    /\ CommitLaidOutWhole
    /\ fixture.k.tag = 1 /\ fixture.c.v = 3
    /\ fixture.k.group = Str(<<103, 195, 169>>) /\ fixture.k.topic = Str(<<103>>)
    /\ fixture.k.partition = I32_MAX
    /\ fixture.c.offset = <<-1, 2>> /\ fixture.c.leader_epoch = -1
    /\ result.status = "ok"
    /\ result.rec.group = <<103, 195, 169>> /\ result.rec.topic = <<103>>
    /\ result.rec.partition = I32_MAX
    /\ result.rec.offset = <<-1, 2>>
    /\ result.rec.leader_epoch = -1
    /\ result.rec.expire_timestamp = MinusOne64

(***************************************************************************)
(* Concurrent callers.  Each caller makes one call of try_from_bytes on    *)
(* its own key and payload; a call is two steps, the key and then the      *)
(* payload, and the steps of the callers interleave in any order (a caller *)
(* that starts after another has returned repeats it when their inputs are *)
(* the same).  key, payload and result are indexed by caller; fixture      *)
(* holds every caller's fixture and how the program was built.  The calls  *)
(* share the process and its allocator, nothing else.                      *)
(***************************************************************************)
MaxCallers == 2   \* callers of one run

Callers == 1..MaxCallers

\* panic = "unwind" (the default) or "abort" in the profile of the binary:
\* a panic ends the caller's thread, or the process.
PanicStrategies == {"unwind", "abort"}

\* The calls of a run: records and tombstones of both kinds, a payload cut
\* short, no key, an unsupported tag, a member count of -1 and of i32::MAX.
CallFixes ==
    {Fixture(PlainKey(1), Len(KeyBytes(PlainKey(1))), "commit", PlainCommit(3), NoGroup,
             Len(CommitBytes(PlainCommit(3))) - drop) : drop \in 0..MaxDrop}
    \cup {Fixture(PlainKey(0), Len(KeyBytes(PlainKey(0))), "none", NoCommit, NoGroup, 0),
          Fixture(NoKey, 0, "commit", PlainCommit(0), NoGroup,
                  Len(CommitBytes(PlainCommit(0)))),
          Fixture(PlainKey(99), Len(KeyBytes(PlainKey(99))), "commit", PlainCommit(0),
                  NoGroup, Len(CommitBytes(PlainCommit(0))))}
    \cup {Fixture(GroupKey, Len(KeyBytes(GroupKey)), "group", NoCommit, g,
                  Len(GroupBytes(g))) :
            g \in {PlainGroup(3, 1),
                   GroupFix(0, 0, -1, 1, 2, 1, 1, 1, FALSE),
                   GroupFix(0, 0, I32_MAX, 1, 2, 1, 1, 1, FALSE)}}

\* A call between its two steps: the key is decoded into rec, the payload
\* parser not built yet.
Running(r) == [r EXCEPT !.status = "running", !.phase = "payload"]

\* A call that never returned: the process ended under it.
Killed ==
    [status |-> "killed", variant |-> "", rec |-> NoRecord, err |-> NoError,
     kcur |-> 0, pcur |-> 0, phase |-> "killed"]

InFlight(r) == r.status \in {"pending", "running"}

\* The first step of a call: the match on key, the tag, try_from on the key
\* parser.  It returns if that fails or if there is no payload.
key_step(r, p) == IF r.status = "ok" /\ p.some THEN Running(r) ELSE r

\* The second step: the payload parser is built over the call's payload and
\* parse_payload fills the record the first step made.
payload_step(r, payload_bytes) ==
    WithPayload(r.variant, r.kcur,
                IF r.variant = "OffsetCommit"
                THEN OffsetCommit_parse_payload(r.rec, payload_bytes)
                ELSE GroupMetadata_parse_payload(r.rec, payload_bytes))

\* A refused allocation aborts the process (handle_alloc_error), and so
\* does a panic when the binary is built with panic = "abort".
ProcessEnds(r) ==
    \/ r.status = "abort"
    \/ r.status = "panic" /\ fixture.build = "abort"

\* The results once caller t has ended its step with r: when the process
\* ends with it, no call in flight returns.
Stepped(t, r) ==
    IF ProcessEnds(r)
    THEN [u \in Callers |->
            IF u = t THEN r ELSE IF InFlight(result[u]) THEN Killed ELSE result[u]]
    ELSE [result EXCEPT ![t] = r]

ConcurrentInit ==
    /\ fixture \in [call : [Callers -> CallFixes], build : PanicStrategies]
    /\ key = [t \in Callers |-> KeyOf(fixture.call[t])]
    /\ payload = [t \in Callers |-> PayloadOf(fixture.call[t])]
    /\ result = [t \in Callers |-> Pending]
    /\ heap_grants \in BOOLEAN

\* try_from_bytes, from its entry to the end of try_from on the key.
DecodeKey(t) ==
    /\ result[t].status = "pending"
    /\ result' = Stepped(t, key_step(try_from_bytes(key[t], None), payload[t]))
    /\ UNCHANGED <<key, payload, fixture, heap_grants>>

\* try_from_bytes, from the payload parser to its return.
DecodePayload(t) ==
    /\ result[t].status = "running"
    /\ result' = Stepped(t, payload_step(result[t], payload[t].bytes))
    /\ UNCHANGED <<key, payload, fixture, heap_grants>>

ConcurrentNext == \E t \in Callers : DecodeKey(t) \/ DecodePayload(t)

ConcurrentSpec == ConcurrentInit /\ [][ConcurrentNext]_vars

\* C23: the result of a call depends on its own key and payload alone.  In
\* every interleaving of the callers' steps a call that is over has
\* returned what try_from_bytes returns for its key and payload when run
\* alone, and two calls with the same key and payload (made side by side, or
\* one after the other) have returned equal results.
C23_CallsIndependent ==
    /\ \A t \in Callers :
          ~InFlight(result[t]) => result[t] = try_from_bytes(key[t], payload[t])
    /\ \A t, u \in Callers :
          (~InFlight(result[t]) /\ ~InFlight(result[u])
              /\ key[t] = key[u] /\ payload[t] = payload[u]) =>
          result[t] = result[u]

\* The assignment of member i (0-based) as a fixture lays it out: the
\* version, the count, the TopicPartitions, then user_data.
AssignmentLaidOut(g, i) ==
    [schema_version |-> g.av,
     assigned_topic_partitions |-> TopicPartitionsListLaidOut(g, i),
     user_data |-> M_asg_user_data(i)]

\* C24: an assignment blob of a supported version a, laid out as the i32
\* count of its TopicPartitions, that many TopicPartitions (none when the
\* count is 0 or negative), then user_data as a byte array, decodes to
\* exactly these: the list as laid out, then user_data, for every a in 0..3
\* and whatever the versions of the payload and of the subscription.  The
\* blob must hold all of it: user_data comes last, so a blob a byte short
\* fails with insufficient data.
C24_AssignmentLayout ==
    /\ WholeGroup =>
        /\ result.status = "ok"
        /\ Len(result.rec.members) = fixture.g.n
        /\ \A i \in 1..fixture.g.n :
              /\ result.rec.members[i].assignment = AssignmentLaidOut(fixture.g, i - 1)
              /\ result.rec.members[i].assignment.schema_version \in 0..3
              /\ result.rec.members[i].assignment.user_data # <<>>
              /\ Len(result.rec.members[i].assignment.assigned_topic_partitions) =
                     fixture.g.ntp
    /\ (AssignmentCarved /\ fixture.g.av \in 0..3 /\ fixture.g.adelta < 0) =>
        /\ result.status = "err"
        /\ result.err = NotEnoughBytes

\* C24 witness: an assignment of version 3 after a subscription of version
\* 3 in a payload of version 0, with one TopicPartitions of one partition,
\* was decoded, its user_data the bytes after the list.
C24_Witness ==
    /\ WholeGroup
    /\ fixture.g.v = 0 /\ fixture.g.sv = 3 /\ fixture.g.av = 3
    /\ fixture.g.ntp = 1 /\ fixture.g.np = 1
    /\ result.status = "ok"
    /\ result.rec.members[1].assignment.schema_version = 3
    /\ result.rec.members[1].assignment.assigned_topic_partitions =
           <<[topic |-> M_tp_topic(0, 1), partitions |-> <<M_partition(0, 1, 1)>>]>>
    /\ result.rec.members[1].assignment.user_data = M_asg_user_data(0)

\* The count a fixture announces for a list it lays out empty (here
\* subscribed_topics: the other lists announce the same).
EmptyCount(g) == Count(g, "topics", 0)

\* C25: a list count that is zero or negative gives an empty list and no
\* error, and no byte after the count is taken for an element: this holds
\* for subscribed_topics, owned_topic_partitions, assigned_topic_partitions
\* and the partitions of a TopicPartitions, and the field laid out right
\* after the four bytes of the count (user_data after subscribed_topics and
\* after assigned_topic_partitions, generation_id after
\* owned_topic_partitions, the end of the TopicPartitions after partitions)
\* is decoded from there.
C25_EmptyLists ==
    WholeGroup =>
        /\ result.status = "ok"
        /\ Len(result.rec.members) = fixture.g.n
        /\ result.pcur = Len(GroupBytes(fixture.g))
        /\ \A i \in 1..fixture.g.n :
              /\ fixture.g.nt = 0 =>
                    /\ result.rec.members[i].subscription.subscribed_topics = <<>>
                    /\ result.rec.members[i].subscription.user_data =
                           M_sub_user_data(i - 1)
              /\ (fixture.g.ntp = 0 /\ fixture.g.sv >= 1) =>
                    /\ result.rec.members[i].subscription.owned_topic_partitions = <<>>
                    /\ fixture.g.sv >= 2 =>
                           result.rec.members[i].subscription.generation_id =
                               M_generation_id(i - 1)
                    /\ fixture.g.sv >= 3 =>
                           result.rec.members[i].subscription.rack_id = M_rack_id(i - 1)
              /\ fixture.g.ntp = 0 =>
                    /\ result.rec.members[i].assignment.assigned_topic_partitions = <<>>
                    /\ result.rec.members[i].assignment.user_data =
                           M_asg_user_data(i - 1)
              /\ (fixture.g.ntp > 0 /\ fixture.g.np = 0) =>
                    /\ \A j \in 1..fixture.g.ntp :
                          result.rec.members[i].assignment.assigned_topic_partitions[j] =
                              [topic |-> M_tp_topic(i - 1, j), partitions |-> <<>>]
                    /\ Len(result.rec.members[i].assignment.assigned_topic_partitions) =
                           fixture.g.ntp
                    /\ result.rec.members[i].assignment.user_data =
                           M_asg_user_data(i - 1)
                    /\ fixture.g.sv >= 1 =>
                           result.rec.members[i].subscription.owned_topic_partitions =
                               result.rec.members[i].assignment.assigned_topic_partitions
              /\ result.rec.members[i].id = M_id(i - 1)

\* C25 witness: two members whose subscribed_topics, owned and assigned
\* TopicPartitions all announce -32768 elements were decoded, the lists of
\* the second empty and the fields after them as laid out.
C25_Witness ==
    /\ WholeGroup
    /\ fixture.g.n = 2
    /\ fixture.g.nt = 0 /\ fixture.g.ntp = 0
    /\ EmptyCount(fixture.g) = -32768
    /\ fixture.g.sv = 3
    /\ result.status = "ok"
    /\ result.rec.members[2].subscription.subscribed_topics = <<>>
    /\ result.rec.members[2].subscription.owned_topic_partitions = <<>>
    /\ result.rec.members[2].subscription.rack_id = M_rack_id(1)
    /\ result.rec.members[2].assignment.assigned_topic_partitions = <<>>
    /\ result.rec.members[2].assignment.user_data = M_asg_user_data(1)

\* C26: no call of try_from_bytes returns UnableToParseForVersion, whatever
\* the key and the payload: a TopicPartitions is parsed with the version of
\* the subscription or assignment that holds it, and these have been
\* checked to lie in 0..3 before; a blob of a version above 3 that holds
\* TopicPartitions is refused for its own version, and every subscription
\* and assignment that was decoded has a version in 0..3.
C26_UnableToParseUnreachable ==
    /\ Done => result.err.kind # "UnableToParseForVersion"
    /\ GroupDecoded =>
        \A i \in 1..Len(result.rec.members) :
            /\ result.rec.members[i].subscription.schema_version \in 0..3
            /\ result.rec.members[i].assignment.schema_version \in 0..3
    /\ (SubscriptionCarved /\ fixture.g.sv > 3 /\ fixture.g.sdelta >= 0) =>
        result.err = UnsupportedConsumerProtocolSubscriptionVersion(fixture.g.sv)
    /\ (AssignmentCarved /\ fixture.g.av > 3 /\ fixture.g.adelta >= 0) =>
        result.err = UnsupportedConsumerProtocolAssignmentVersion(fixture.g.av)

\* C26 witness: an assignment blob of version 4 that holds a TopicPartitions,
\* whole, after a subscription that decodes, was refused for its version.
C26_Witness ==
    /\ AssignmentCarved
    /\ fixture.g.av = 4 /\ fixture.g.adelta = 0
    /\ fixture.g.ntp = 1 /\ fixture.g.np = 1
    /\ result.status = "err"
    /\ result.err = UnsupportedConsumerProtocolAssignmentVersion(4)
    /\ result.err.kind # "UnableToParseForVersion"

\* The payload is present and holds no byte.
EmptyPayload == payload.some /\ payload.bytes = <<>>

\* C27: a payload that is present but empty is no tombstone.  With a key
\* that decodes, of either kind, the call fails with insufficient data, at
\* the read of schema_version with the payload cursor at 0, and returns no
\* record; a record with is_tombstone true comes from a call without a
\* payload and from no other, and a call without a payload whose key
\* decodes does return one.
C27_EmptyPayloadIsNoTombstone ==
    /\ (Done /\ EmptyPayload /\ (WholeKey \/ KeyDecoded)) =>
        /\ result.status = "err"
        /\ result.err = NotEnoughBytes
        /\ result.pcur = 0
        /\ result.phase = "payload"
        /\ result.rec = NoRecord
    /\ (result.status = "ok" /\ result.rec.is_tombstone) => payload = None
    /\ (Done /\ WholeKey /\ payload = None) =>
        /\ result.status = "ok"
        /\ result.rec.is_tombstone

\* C27 witness: a membership key with a payload of no bytes was refused with
\* insufficient data.
C27_Witness ==
    /\ WholeKey /\ KeyTag = 2
    /\ EmptyPayload
    /\ result.status = "err"
    /\ result.err = NotEnoughBytes
    /\ result.pcur = 0

\* The payload a fixture lays out, whole, and the call of try_from_bytes on
\* the key with it.
WholePayload == PayloadBytes(fixture.pk, fixture.c, fixture.g)
WholeCall == try_from_bytes(key, Some(WholePayload))

\* The call was given a strict prefix of a payload that, whole, decodes
\* under the same key with the payload decoder consuming all of its bytes.
Truncated ==
    /\ Done
    /\ fixture.pk \in {"commit", "group"}
    /\ fixture.pkeep < Len(WholePayload)
    /\ WholeCall.status = "ok"
    /\ WholeCall.pcur = Len(WholePayload)

\* C28: truncation is always detected.  When a key and a payload decode
\* with all the payload's bytes consumed, the same key with any strict
\* prefix of that payload (the empty one included) returns an error and no
\* record, for commit and for membership payloads: the error is the
\* insufficient-data one, raised by the first read that the prefix cuts.
C28_TruncationDetected ==
    Truncated =>
        /\ result.status = "err"
        /\ result.rec = NoRecord
        /\ result.variant = ""
        /\ result.err = NotEnoughBytes
        /\ result.pcur <= fixture.pkeep

\* C28 witness: a commit payload of version 1 cut right before its
\* expire_timestamp, where a payload of version 0 would end, was refused.
C28_Witness ==
    /\ Truncated
    /\ fixture.pk = "commit" /\ fixture.c.v = 1
    /\ fixture.pkeep = Len(WholePayload) - 8
    /\ result.status = "err"
    /\ result.err = NotEnoughBytes
    /\ result.pcur = fixture.pkeep

====
